---- MODULE Spec2Model ----
(***************************************************************************)
(* Verification model of the sequential Monte Carlo Tree Search engine     *)
(* (mcts.py: State, MCTS), of the game classes it searches (c4.py,          *)
(* gomoku.py, reversi.py), of the game runner (game_runner.py) and of the   *)
(* game mechanics functions (mctsnc_game_mechanics.py).                     *)
(*                                                                         *)
(* A search tree is a function from paths to State objects: the path of a   *)
(* node is the sequence of action indexes that leads to it from the initial *)
(* state of the game.  Boards are functions board[i, j] as in the source.   *)
(***************************************************************************)
EXTENDS Integers, Sequences, FiniteSets, TLC

VARIABLES
    cls,            \* the game class of the states, [name, M, N]: its name and its
                    \* class attributes M and N
    runner,         \* GameRunner: [black_ai, white_ai], TRUE for the MCTS instance and
                    \* FALSE for None, a human
    mcts,           \* the attributes of the MCTS instance set by MCTS.__init__
    tree,           \* the State objects that exist, by path
    game,           \* GameRunner.run: the local variable game (a path)
    pc,             \* position of the control: "idle", the places inside MCTS.run, "done", "raised"
    root,           \* MCTS.root
    state,          \* MCTS.run: the local variable state
    playout_root,   \* MCTS.run: the local variable playout_root
    steps,          \* MCTS.steps
    forced,         \* MCTS.run: the argument forced_search_steps_limit
    elapsed,        \* t2_loop - t1_loop at the last reading of the clock, in ticks
    best_action,    \* MCTS.best_action
    rng_state,      \* np.random: "seeded" (np.random.seed was the last call) or "advanced"
    hist,           \* history of the current and the earlier runs (for the properties only)
    mech,           \* the arrays and arguments the game mechanics functions work on:
                    \* board, extra_info, turn, last_action, legal_actions_with_count
    naming          \* an action index, the name made of it and the index read back

vars == <<cls, runner, mcts, tree, game, pc, root, state, playout_root, steps, forced,
          elapsed, best_action, rng_state, hist, mech, naming>>

(***************************************************************************)
(* Python values.                                                          *)
(***************************************************************************)
\* Python's None where an int is expected (an outcome, an action index).
None == -9
\* np.inf as a budget.
inf == 1000000
\* None where a State is expected (a parent, the result of take_action).
NoState == <<None>>
\* no arrays of the game mechanics: the sequential search does not use them
NoMech == [moves |-> None]
\* no name asked for
NoNaming == [index |-> None]

Last(s) == s[Len(s)]
Front(s) == SubSeq(s, 1, Len(s) - 1)
IsPrefix(p, q) == Len(p) <= Len(q) /\ SubSeq(q, 1, Len(p)) = p
IsProperPrefix(p, q) == Len(p) < Len(q) /\ SubSeq(q, 1, Len(p)) = p
Contains(seq, x) == \E k \in 1..Len(seq) : seq[k] = x

(***************************************************************************)
(* Boards.                                                                 *)
(***************************************************************************)
Cells(M, N) == (0..(M - 1)) \X (0..(N - 1))
ZeroBoard(M, N) == [x \in Cells(M, N) |-> 0]
InBoard(M, N, i, j) == i >= 0 /\ i < M /\ j >= 0 /\ j < N
\* np.sum(board == 0)
CountZeros(M, N, board) == Cardinality({c \in Cells(M, N) : board[c[1], c[2]] = 0})

\* The two loops "for k in range(1, kmax + 1): if <out of board> or
\* board[i + k*di, j + k*dj] != last_token: break; total += 1" in one direction.
RunLength(M, N, board, i, j, di, dj, last_token, kmax) ==
    LET same(k) == /\ InBoard(M, N, i + k * di, j + k * dj)
                   /\ board[i + k * di, j + k * dj] = last_token
    IN Cardinality({k \in 1..kmax : \A l \in 1..k : same(l)})

\* total of both loops of one line (direction and its opposite)
LineTotal(M, N, board, i, j, di, dj, last_token, kmax) ==
    RunLength(M, N, board, i, j, di, dj, last_token, kmax)
    + RunLength(M, N, board, i, j, -di, -dj, last_token, kmax)

\* the four lines in the order of the source: N-S, E-W, NE-SW, NW-SE
LineDirections == << <<-1, 0>>, <<0, 1>>, <<-1, 1>>, <<-1, -1>> >>

\* "self.turn *= -1" at the end of take_action_job (c4.py:90, gomoku.py:87,
\* reversi.py:71)
next_turn_keeps(turn) == turn

next_turn(turn) == turn * (-1)

(***************************************************************************)
(* c4.py: class C4.  A game state is [board, column_fills, turn].           *)
(***************************************************************************)
C4_M == 6
C4_N == 7

C4_init(M, N) ==
    [board |-> ZeroBoard(M, N), column_fills |-> [j \in 0..(N - 1) |-> 0]]

C4_take_action_job(M, N, s, action_index) ==
    LET j == action_index IN
    IF s.column_fills[j] = M
    THEN [legal |-> FALSE, s |-> s]
    ELSE LET i == M - 1 - s.column_fills[j] IN
         [legal |-> TRUE,
          s |-> [s EXCEPT !.board = [x \in Cells(M, N) |->
                                        IF x = <<i, j>> THEN s.turn ELSE s.board[x]],
                          !.column_fills = [k \in 0..(N - 1) |->
                                        IF k = j THEN s.column_fills[k] + 1
                                        ELSE s.column_fills[k]],
                          !.turn = next_turn(s.turn)]]

C4_compute_outcome_job_numba_jit(M, N, turn, last_i, last_j, board) ==
    LET last_token == -turn IN
    IF \E d \in 1..4 :
          LineTotal(M, N, board, last_i, last_j, LineDirections[d][1],
                    LineDirections[d][2], last_token, 3) >= 3
    THEN last_token
    ELSE 0

C4_compute_outcome_job(M, N, s) ==
    LET j == s.last_action_index
        i == M - s.column_fills[j]
        numba_outcome == C4_compute_outcome_job_numba_jit(M, N, s.turn, i, j, s.board)
    IN IF numba_outcome # 0 THEN numba_outcome
       ELSE IF CountZeros(M, N, s.board) = 0 THEN 0
       ELSE None

\* np.where(self.column_fills < C4.M)[0]: the indexes the random action is drawn from
C4_playout_indexes(M, N, s) == {j \in 0..(N - 1) : s.column_fills[j] < M}

C4_get_max_actions(M, N) == N

(***************************************************************************)
(* gomoku.py: class Gomoku.  A game state is [board, turn].                 *)
(***************************************************************************)
Gomoku_M == 15
Gomoku_N == 15

Gomoku_init(M, N) == [board |-> ZeroBoard(M, N), column_fills |-> <<>>]

Gomoku_take_action_job(M, N, s, action_index) ==
    LET i == action_index \div N
        j == action_index % N
    IN IF i < 0 \/ i >= M \/ j < 0 \/ j >= N THEN [legal |-> FALSE, s |-> s]
       ELSE IF s.board[i, j] # 0 THEN [legal |-> FALSE, s |-> s]
       ELSE [legal |-> TRUE,
             s |-> [s EXCEPT !.board = [x \in Cells(M, N) |->
                                           IF x = <<i, j>> THEN s.turn ELSE s.board[x]],
                             !.turn = next_turn(s.turn)]]

\* also Reversi.compute_outcome_job_numba_jit (reversi.py:148-200), the same text
Gomoku_compute_outcome_job_numba_jit(M, N, turn, last_i, last_j, board) ==
    LET last_token == -turn IN
    IF \E d \in 1..4 :
          LineTotal(M, N, board, last_i, last_j, LineDirections[d][1],
                    LineDirections[d][2], last_token, 5) = 4
    THEN last_token
    ELSE 0

Gomoku_compute_outcome_job(M, N, s) ==
    LET i == s.last_action_index \div N
        j == s.last_action_index % N
        numba_outcome == Gomoku_compute_outcome_job_numba_jit(M, N, s.turn, i, j, s.board)
    IN IF numba_outcome # 0 THEN numba_outcome
       ELSE IF CountZeros(M, N, s.board) = 0 THEN 0
       ELSE None

\* np.where(np.ravel(self.board) == 0)[0]
Gomoku_playout_indexes(M, N, s) ==
    {a \in 0..(M * N - 1) : s.board[a \div N, a % N] = 0}

Gomoku_get_max_actions(M, N) == M * N

(***************************************************************************)
(* reversi.py: class Reversi.  A game state is [board, turn].               *)
(***************************************************************************)
Reversi_M == 8
Reversi_N == 8

Reversi_init_colours_swapped(M, N) ==
    [board |-> [x \in Cells(M, N) |->
                   IF x \in {<<3, 3>>, <<4, 4>>} THEN 1
                   ELSE IF x \in {<<3, 4>>, <<4, 3>>} THEN -1
                   ELSE 0],
        column_fills |-> <<>>]

\* Reversi.__init__: board[[3,4],[3,4]] = -1, board[[3,4],[4,3]] = 1 on the 8 x 8
\* board: the four centre cells (M \div 2 - 1 = 3, M \div 2 = 4).
Reversi_init(M, N) ==
    [board |-> [x \in Cells(M, N) |->
                   IF x \in {<<3, 3>>, <<4, 4>>} THEN -1
                   ELSE IF x \in {<<3, 4>>, <<4, 3>>} THEN 1
                   ELSE 0],
        column_fills |-> <<>>]

\* the eight (horizontal, vertical) pairs of the two nested loops
Directions8 == {d \in {-1, 0, 1} \X {-1, 0, 1} : d # <<0, 0>>}

\* Reversi.get_pawns_to_flip, one direction: the cells of pawns_in_direction when the
\* walk ends on a pawn of the player, nothing otherwise.  (vertical moves the row.)
Reversi_pawns_in_direction(M, N, s, start_row, start_col, vertical, horizontal) ==
    LET player == s.turn
        opponent == -player
        at(k) == <<start_row + k * vertical, start_col + k * horizontal>>
        inb(k) == InBoard(M, N, at(k)[1], at(k)[2])
        val(k) == s.board[at(k)[1], at(k)[2]]
        \* the first k >= 1 where the walk stops: off the board or not an opponent
        stops == {k \in 1..(M + N) : ~inb(k) \/ val(k) # opponent}
        stop == CHOOSE k \in stops : \A l \in stops : k <= l
    IN IF inb(stop) /\ val(stop) = player
       THEN {at(k) : k \in 1..(stop - 1)}
       ELSE {}

Reversi_get_pawns_to_flip(M, N, s, action_index) ==
    LET start_row == action_index \div N
        start_col == action_index % N
    IN IF s.board[start_row, start_col] # 0 THEN {}
       ELSE UNION {Reversi_pawns_in_direction(M, N, s, start_row, start_col, d[1], d[2])
                   : d \in Directions8}

Reversi_take_action_job(M, N, s, action_index) ==
    LET row == action_index \div N
        col == action_index % N
        pawns_indices == Reversi_get_pawns_to_flip(M, N, s, action_index)
    IN IF pawns_indices = {} THEN [legal |-> FALSE, s |-> s]
       ELSE [legal |-> TRUE,
             s |-> [s EXCEPT !.board = [x \in Cells(M, N) |->
                                 IF x = <<row, col>> \/ x \in pawns_indices
                                 THEN s.turn ELSE s.board[x]],
                             !.turn = next_turn(s.turn)]]

Reversi_compute_outcome_job(M, N, s) ==
    LET i == s.last_action_index \div N
        j == s.last_action_index % N
        numba_outcome == Gomoku_compute_outcome_job_numba_jit(M, N, s.turn, i, j, s.board)
    IN IF numba_outcome # 0 THEN numba_outcome
       ELSE IF CountZeros(M, N, s.board) = 0 THEN 0
       ELSE None

\* np.where(np.ravel(self.board) == 0)[0]
Reversi_playout_indexes(M, N, s) ==
    {a \in 0..(M * N - 1) : s.board[a \div N, a % N] = 0}

Reversi_get_max_actions(M, N) == M * N

(***************************************************************************)
(* mctsnc_game_mechanics.py: the functions of Connect 4 on a board, the     *)
(* fills of the columns (extra_info), a turn and an action.                 *)
(***************************************************************************)
\* the indexes 0, 1, ..., k - 1 in the order of "for ... in range(k)"
RangeSeq(k) == [x \in 1..k |-> x - 1]

\* the entries of a list as a set
SeqRange(seq) == {seq[k] : k \in 1..Len(seq)}

is_action_legal_c4_full_too(m, n, board, extra_info, turn, action) ==
    extra_info[action] <= m

\* is_action_legal_c4: the value left in legal_actions[action]
is_action_legal_c4(m, n, board, extra_info, turn, action) == extra_info[action] < m

take_action_c4_one_row_up(m, n, board, extra_info, turn, action) ==
    LET filled == extra_info[action] + 1
        row == m - filled - 1
    IN [board |-> [x \in Cells(m, n) |-> IF x = <<row, action>> THEN turn ELSE board[x]],
        extra_info |-> [k \in 0..(n - 1) |-> IF k = action THEN filled ELSE extra_info[k]]]

take_action_c4_fill_kept(m, n, board, extra_info, turn, action) ==
    LET filled == extra_info[action] + 1
        row == m - filled
    IN [board |-> [x \in Cells(m, n) |-> IF x = <<row, action>> THEN turn ELSE board[x]],
        extra_info |-> extra_info]

\* take_action_c4 (and take_action_playout_c4, the same text): the arrays after it
take_action_c4(m, n, board, extra_info, turn, action) ==
    LET filled == extra_info[action] + 1
        row == m - filled
    IN [board |-> [x \in Cells(m, n) |-> IF x = <<row, action>> THEN turn ELSE board[x]],
        extra_info |-> [k \in 0..(n - 1) |-> IF k = action THEN filled ELSE extra_info[k]]]

\* legal_actions_playout_c4: the first count entries of legal_actions_with_count
legal_actions_playout_c4(m, n, board, extra_info, turn) ==
    SelectSeq(RangeSeq(n), LAMBDA j : extra_info[j] < m)

compute_outcome_c4_three_in_line(m, n, board, extra_info, turn, last_action) ==
    LET last_token == -turn
        j == last_action
        i == m - extra_info[j]
    IN IF \E d \in 1..4 :
             LineTotal(m, n, board, i, j, LineDirections[d][1], LineDirections[d][2],
                       last_token, 3) >= 2
       THEN last_token
       ELSE IF \A k \in 0..(n - 1) : ~(extra_info[k] < m) THEN 0
       ELSE 2

\* compute_outcome_c4
compute_outcome_c4(m, n, board, extra_info, turn, last_action) ==
    LET last_token == -turn
        j == last_action
        i == m - extra_info[j]
    IN IF \E d \in 1..4 :
             LineTotal(m, n, board, i, j, LineDirections[d][1], LineDirections[d][2],
                       last_token, 3) >= 3
       THEN last_token
       ELSE IF \A k \in 0..(n - 1) : ~(extra_info[k] < m) THEN 0
       ELSE 2

(***************************************************************************)
(* mctsnc_game_mechanics.py: the functions of Gomoku.                       *)
(***************************************************************************)
\* is_action_legal_gomoku
is_action_legal_gomoku(m, n, board, turn, action) ==
    LET i == action \div n
        j == action % n
    IN board[i, j] = 0

\* take_action_gomoku: the board after it
take_action_gomoku(m, n, board, turn, action) ==
    LET i == action \div n
        j == action % n
    IN [x \in Cells(m, n) |-> IF x = <<i, j>> THEN turn ELSE board[x]]

\* legal_actions_playout_gomoku: the board is scanned only when the stored count is
\* 0; stored is the list of the first count entries before the call
legal_actions_playout_gomoku(m, n, board, turn, stored) ==
    IF Len(stored) = 0
    THEN SelectSeq(RangeSeq(m * n), LAMBDA k : board[k \div n, k % n] = 0)
    ELSE stored

take_action_playout_gomoku_count_only(m, n, board, turn, action, action_ord, stored) ==
    [board |-> take_action_gomoku(m, n, board, turn, action),
     legal_actions |-> SubSeq(stored, 1, Len(stored) - 1)]

\* take_action_playout_gomoku: the board and the list after it; the last legal
\* action takes the place of the action taken
take_action_playout_gomoku(m, n, board, turn, action, action_ord, stored) ==
    LET last_legal_action == stored[Len(stored)]
        moved == [k \in 1..Len(stored) |->
                     IF k = action_ord + 1 THEN last_legal_action ELSE stored[k]]
    IN [board |-> take_action_gomoku(m, n, board, turn, action),
        legal_actions |-> SubSeq(moved, 1, Len(stored) - 1)]

compute_outcome_gomoku_five_or_more(m, n, board, turn, last_action) ==
    LET last_token == -turn
        i == last_action \div n
        j == last_action % n
    IN IF \E d \in 1..4 :
             LineTotal(m, n, board, i, j, LineDirections[d][1], LineDirections[d][2],
                       last_token, 5) >= 4
       THEN last_token
       ELSE IF \A x \in Cells(m, n) : board[x] # 0 THEN 0
       ELSE 2

\* compute_outcome_gomoku
compute_outcome_gomoku(m, n, board, turn, last_action) ==
    LET last_token == -turn
        i == last_action \div n
        j == last_action % n
    IN IF \E d \in 1..4 :
             LineTotal(m, n, board, i, j, LineDirections[d][1], LineDirections[d][2],
                       last_token, 5) = 4
       THEN last_token
       ELSE IF \A x \in Cells(m, n) : board[x] # 0 THEN 0
       ELSE 2

(***************************************************************************)
(* mctsnc_game_mechanics.py: the functions of Reversi on a board, a turn    *)
(* and an action; the action m * n is the pass.                             *)
(***************************************************************************)
\* the inner "while True" of the scans: from (row, col) on along (horizontal,
\* vertical), TRUE when a stone of turn comes before an empty crossing or the edge
RECURSIVE mech_ray_closed(_, _, _, _, _, _, _, _)
mech_ray_closed(m, n, board, row, col, horizontal, vertical, turn) ==
    IF ~InBoard(m, n, row, col) \/ board[row, col] = 0 THEN FALSE
    ELSE IF board[row, col] = turn THEN TRUE
    ELSE mech_ray_closed(m, n, board, row + horizontal, col + vertical,
                         horizontal, vertical, turn)

\* one direction of the scans from the crossing (i, j): the neighbour holds a stone
\* of -turn and the ray behind it is closed by a stone of turn
mech_direction_captures(m, n, board, i, j, horizontal, vertical, turn) ==
    /\ InBoard(m, n, i + horizontal, j + vertical)
    /\ board[i + horizontal, j + vertical] = -turn
    /\ mech_ray_closed(m, n, board, i + 2 * horizontal, j + 2 * vertical,
                       horizontal, vertical, turn)

\* the double loop over horizontal and vertical in range(-1, 2), (0, 0) skipped
mech_normal_move(m, n, board, turn, a) ==
    LET i == a \div n
        j == a % n
    IN /\ board[i, j] = 0
       /\ \E d \in Directions8 :
             mech_direction_captures(m, n, board, i, j, d[1], d[2], turn)

\* is_action_legal_reversi: the value left in legal_actions[action]
is_action_legal_reversi(m, n, board, turn, action) ==
    IF action = m * n
    THEN ~(\E a \in 0..(m * n - 1) : mech_normal_move(m, n, board, turn, a))
    ELSE mech_normal_move(m, n, board, turn, action)

\* the stones turned in one direction by take_action_reversi: the walk back from
\* the closing stone to (i, j)
RECURSIVE mech_flip_direction(_, _, _, _, _, _, _, _)
mech_flip_direction(m, n, board, row, col, horizontal, vertical, turn) ==
    IF board[row, col] = turn THEN board
    ELSE mech_flip_direction(m, n,
             [x \in Cells(m, n) |-> IF x = <<row, col>> THEN turn ELSE board[x]],
             row + horizontal, col + vertical, horizontal, vertical, turn)

\* (horizontal, vertical) in the order of the two nested loops
DirectionList ==
    << <<-1, -1>>, <<-1, 0>>, <<-1, 1>>, <<0, -1>>, <<0, 1>>, <<1, -1>>, <<1, 0>>, <<1, 1>> >>

\* the directions of take_action_reversi from the k-th on, on the board as the
\* directions before have left it
RECURSIVE mech_flip_from(_, _, _, _, _, _, _)
mech_flip_from(m, n, board, i, j, turn, k) ==
    IF k > Len(DirectionList) THEN board
    ELSE LET d == DirectionList[k]
         IN mech_flip_from(m, n,
                IF mech_direction_captures(m, n, board, i, j, d[1], d[2], turn)
                THEN mech_flip_direction(m, n, board, i + d[1], j + d[2], d[1], d[2], turn)
                ELSE board,
                i, j, turn, k + 1)

take_action_reversi_no_flip(m, n, board, turn, action) ==
    IF action = m * n THEN board
    ELSE [x \in Cells(m, n) |->
             IF x = <<action \div n, action % n>> THEN turn ELSE board[x]]

\* take_action_reversi: the board after the action
take_action_reversi(m, n, board, turn, action) ==
    IF action = m * n THEN board
    ELSE LET i == action \div n
             j == action % n
             placed == [x \in Cells(m, n) |-> IF x = <<i, j>> THEN turn ELSE board[x]]
         IN mech_flip_from(m, n, placed, i, j, turn, 1)

legal_actions_playout_reversi_no_pass(m, n, board, turn) ==
    SelectSeq(RangeSeq(m * n), LAMBDA a : mech_normal_move(m, n, board, turn, a))

\* legal_actions_playout_reversi: the actions left in legal_actions_with_count
legal_actions_playout_reversi(m, n, board, turn) ==
    LET normal == SelectSeq(RangeSeq(m * n),
                            LAMBDA a : mech_normal_move(m, n, board, turn, a))
    IN IF Len(normal) = 0 THEN <<m * n>> ELSE normal

compute_outcome_reversi_mover_only(m, n, board, turn, last_action) ==
    LET player_1_points == Cardinality({x \in Cells(m, n) : board[x] = 1})
        player_minus_1_points == Cardinality({x \in Cells(m, n) : board[x] = -1})
    IN IF \E a \in 0..(m * n - 1) : mech_normal_move(m, n, board, turn, a) THEN 2
       ELSE IF player_1_points > player_minus_1_points THEN 1
       ELSE IF player_minus_1_points > player_1_points THEN -1
       ELSE 0

\* compute_outcome_reversi: 2 while a player has a normal move, then the sign of
\* the difference of the counts of the stones
compute_outcome_reversi(m, n, board, turn, last_action) ==
    LET player_1_points == Cardinality({x \in Cells(m, n) : board[x] = 1})
        player_minus_1_points == Cardinality({x \in Cells(m, n) : board[x] = -1})
        has_player_1_legal_action ==
            \E a \in 0..(m * n - 1) : mech_normal_move(m, n, board, 1, a)
        has_player_minus_1_legal_action ==
            \E a \in 0..(m * n - 1) : mech_normal_move(m, n, board, -1, a)
    IN IF has_player_1_legal_action \/ has_player_minus_1_legal_action THEN 2
       ELSE IF player_1_points > player_minus_1_points THEN 1
       ELSE IF player_minus_1_points > player_1_points THEN -1
       ELSE 0

(***************************************************************************)
(* The names of the actions (action_index_to_name, action_name_to_index of  *)
(* the game classes).  A name is the sequence of its characters.            *)
(***************************************************************************)
Letters == <<"A", "B", "C", "D", "E", "F", "G", "H", "I", "J", "K", "L", "M",
             "N", "O", "P", "Q", "R", "S", "T", "U", "V", "W", "X", "Y", "Z">>
LowerLetters == <<"a", "b", "c", "d", "e", "f", "g", "h", "i", "j", "k", "l", "m",
                  "n", "o", "p", "q", "r", "s", "t", "u", "v", "w", "x", "y", "z">>
DigitChars == <<"0", "1", "2", "3", "4", "5", "6", "7", "8", "9">>

\* str(k) of an int k >= 0: its decimal digits
RECURSIVE py_str(_)
py_str(k) ==
    IF k < 10 THEN <<DigitChars[k + 1]>>
    ELSE Append(py_str(k \div 10), DigitChars[(k % 10) + 1])

\* int(s) of a string of decimal digits
RECURSIVE py_int(_)
py_int(s) ==
    LET value(ch) == CHOOSE d \in 0..9 : DigitChars[d + 1] = ch
    IN IF Len(s) = 1 THEN value(s[1])
       ELSE 10 * py_int(Front(s)) + value(Last(s))

\* chr(ord('A') + j)
chr_from_A(j) == Letters[j + 1]

\* ord(ch) - ord('A') of a capital letter
ord_from_A(ch) == (CHOOSE k \in 1..Len(Letters) : Letters[k] = ch) - 1

\* ch.upper() of a letter
upper(ch) ==
    IF \E k \in 1..Len(LowerLetters) : LowerLetters[k] = ch
    THEN Letters[CHOOSE k \in 1..Len(LowerLetters) : LowerLetters[k] = ch]
    ELSE ch

C4_action_name_to_index(action_name) == py_int(action_name)

C4_action_index_to_name(action_index) == py_str(action_index)

Gomoku_action_name_to_index_one_digit(N, action_name) ==
    LET letter == upper(action_name[1])
        j == ord_from_A(letter)
        i == py_int(<<action_name[2]>>) - 1
    IN i * N + j

Gomoku_action_name_to_index(N, action_name) ==
    LET letter == upper(action_name[1])
        j == ord_from_A(letter)
        i == py_int(Tail(action_name)) - 1
    IN i * N + j

Gomoku_action_index_to_name(N, action_index) ==
    LET i == action_index \div N
        j == action_index % N
    IN <<chr_from_A(j)>> \o py_str(i + 1)

\* the row is read from the second character alone: int(action_name[1])
Reversi_action_name_to_index(N, action_name) ==
    LET col == upper(action_name[1])
        row == py_int(<<action_name[2]>>) - 1
        i == row
        j == ord_from_A(col)
    IN i * N + j

Reversi_action_index_to_name(N, action_index) ==
    LET row == action_index \div N
        col == action_index % N
    IN <<chr_from_A(col)>> \o py_str(row + 1)

(***************************************************************************)
(* The game class of a search: the methods of type(state), found by the    *)
(* name of the class, on a board of the M and N of the class.               *)
(***************************************************************************)
SM(c) == c.M
SN(c) == c.N

class_init(c) ==
    CASE c.name = "C4" -> C4_init(SM(c), SN(c))
      [] c.name = "Gomoku" -> Gomoku_init(SM(c), SN(c))
      [] c.name = "Reversi" -> Reversi_init(SM(c), SN(c))

take_action_job(c, s, action_index) ==
    CASE c.name = "C4" -> C4_take_action_job(SM(c), SN(c), s, action_index)
      [] c.name = "Gomoku" -> Gomoku_take_action_job(SM(c), SN(c), s, action_index)
      [] c.name = "Reversi" -> Reversi_take_action_job(SM(c), SN(c), s, action_index)

compute_outcome_job(c, s) ==
    CASE c.name = "C4" -> C4_compute_outcome_job(SM(c), SN(c), s)
      [] c.name = "Gomoku" -> Gomoku_compute_outcome_job(SM(c), SN(c), s)
      [] c.name = "Reversi" -> Reversi_compute_outcome_job(SM(c), SN(c), s)

playout_indexes(c, s) ==
    CASE c.name = "C4" -> C4_playout_indexes(SM(c), SN(c), s)
      [] c.name = "Gomoku" -> Gomoku_playout_indexes(SM(c), SN(c), s)
      [] c.name = "Reversi" -> Reversi_playout_indexes(SM(c), SN(c), s)

get_max_actions(c) ==
    CASE c.name = "C4" -> C4_get_max_actions(SM(c), SN(c))
      [] c.name = "Gomoku" -> Gomoku_get_max_actions(SM(c), SN(c))
      [] c.name = "Reversi" -> Reversi_get_max_actions(SM(c), SN(c))

action_index_to_name(c, action_index) ==
    CASE c.name = "C4" -> C4_action_index_to_name(action_index)
      [] c.name = "Gomoku" -> Gomoku_action_index_to_name(SN(c), action_index)
      [] c.name = "Reversi" -> Reversi_action_index_to_name(SN(c), action_index)

action_name_to_index(c, action_name) ==
    CASE c.name = "C4" -> C4_action_name_to_index(action_name)
      [] c.name = "Gomoku" -> Gomoku_action_name_to_index(SN(c), action_name)
      [] c.name = "Reversi" -> Reversi_action_name_to_index(SN(c), action_name)

(***************************************************************************)
(* mcts.py: class State.                                                   *)
(***************************************************************************)
\* t with the object rec at path q
Put(t, q, rec) == [x \in (DOMAIN t) \cup {q} |-> IF x = q THEN rec ELSE t[x]]

\* "state.children = {}": the objects below p are no longer referenced
DropChildren(t, p) ==
    [x \in {y \in DOMAIN t : ~IsProperPrefix(p, y)} |->
        IF x = p THEN [t[x] EXCEPT !.children = <<>>] ELSE t[x]]

\* State.__init__ followed by the subclass __init__ (the copy of the parent's board)
State_init(c, t, parent) ==
    LET g == IF parent = NoState THEN class_init(c)
             ELSE [board |-> t[parent].board, column_fills |-> t[parent].column_fills]
    IN [win_flag |-> FALSE, n |-> 0, n_wins |-> 0, parent |-> parent,
        children |-> <<>>, outcome_computed |-> FALSE, outcome |-> None,
        turn |-> IF parent = NoState THEN 1 ELSE t[parent].turn,
        last_action_index |-> None,
        board |-> g.board, column_fills |-> g.column_fills]

\* State.take_action: [tree, child], child = NoState for the result None
take_action(c, t, p, action_index) ==
    IF Contains(t[p].children, action_index)
    THEN [tree |-> t, child |-> Append(p, action_index)]
    ELSE LET child == State_init(c, t, p)
             job == take_action_job(c, child, action_index)
         IN IF ~job.legal
            THEN [tree |-> t, child |-> NoState]
            ELSE [tree |-> Put([t EXCEPT ![p].children = Append(@, action_index)],
                               Append(p, action_index),
                               [job.s EXCEPT !.last_action_index = action_index]),
                  child |-> Append(p, action_index)]

win_flag_after_any_outcome(old, outcome, turn) == IF outcome # None THEN TRUE ELSE old

win_flag_after_of_side_to_move(old, outcome, turn) == IF outcome = turn THEN TRUE ELSE old

\* "if self.outcome == -self.turn: self.win_flag = True"
win_flag_after(old, outcome, turn) == IF outcome = -turn THEN TRUE ELSE old

compute_outcome_not_memorized(c, t, p) ==
    IF t[p].last_action_index = None
    THEN [tree |-> t, outcome |-> None, job_run |-> FALSE]
    ELSE LET o == compute_outcome_job(c, t[p])
         IN [tree |-> [t EXCEPT ![p].outcome = o,
                                ![p].outcome_computed = TRUE,
                                ![p].win_flag = win_flag_after(@, o, t[p].turn)],
             outcome |-> o, job_run |-> TRUE]

\* State.compute_outcome: [tree, outcome, job_run], job_run when the call has
\* executed compute_outcome_job
compute_outcome(c, t, p) ==
    IF t[p].outcome_computed
    THEN [tree |-> t, outcome |-> t[p].outcome, job_run |-> FALSE]
    ELSE IF t[p].last_action_index = None
    THEN [tree |-> t, outcome |-> None, job_run |-> FALSE]
    ELSE LET o == compute_outcome_job(c, t[p])
         IN [tree |-> [t EXCEPT ![p].outcome = o,
                                ![p].outcome_computed = TRUE,
                                ![p].win_flag = win_flag_after(@, o, t[p].turn)],
             outcome |-> o, job_run |-> TRUE]

RECURSIVE expand_from_one_child(_, _, _, _)
expand_from_one_child(c, t, p, action_index) ==
    IF action_index >= get_max_actions(c) \/ Len(t[p].children) > 0 THEN t
    ELSE expand_from_one_child(c, take_action(c, t, p, action_index).tree, p,
                               action_index + 1)

\* the loop of State.expand from action_index on
RECURSIVE expand_from(_, _, _, _)
expand_from(c, t, p, action_index) ==
    IF action_index >= get_max_actions(c) THEN t
    ELSE LET ta == take_action(c, t, p, action_index)
         IN IF ta.child = NoState
            THEN expand_from(c, t, p, action_index + 1)
            ELSE expand_from(c, ta.tree, p, action_index + 1)

expand_terminals(c, t, p) ==
    IF Len(t[p].children) = 0 THEN expand_from(c, t, p, 0) ELSE t

\* State.expand
expand(c, t, p) ==
    LET r == compute_outcome(c, t, p)
    IN IF Len(t[p].children) = 0
       THEN (IF r.outcome = None THEN expand_from(c, r.tree, p, 0) ELSE r.tree)
       ELSE t

(***************************************************************************)
(* mcts.py: class MCTS.                                                    *)
(***************************************************************************)
DEFAULT_UCB_C == 2

\* 10^6 * np.sqrt(np.log(n_root) / n), rounded, at [n_root][n]: the values the
\* square root takes for the counts 1..12
SqrtLogTable ==
    << <<0, 0, 0, 0, 0, 0, 0, 0, 0, 0, 0, 0>>,
       <<832555, 588705, 480676, 416277, 372330, 339889, 314676, 294353, 277518, 263277, 251025, 240338>>,
       <<1048147, 741152, 605148, 524074, 468746, 427904, 396162, 370576, 349382, 331453, 316028, 302574>>,
       <<1177410, 832555, 679778, 588705, 526554, 480676, 445019, 416277, 392470, 372330, 355002, 339889>>,
       <<1268636, 897061, 732447, 634318, 567351, 517919, 479499, 448531, 422879, 401178, 382508, 366224>>,
       <<1338566, 946509, 772822, 669283, 598625, 546467, 505930, 473255, 446189, 423292, 403593, 386411>>,
       <<1394959, 986385, 805380, 697479, 623845, 569490, 527245, 493192, 464986, 441125, 420596, 402690>>,
       <<1442027, 1019667, 832555, 721013, 644894, 588705, 545035, 509833, 480676, 456009, 434787, 416277>>,
       <<1482304, 1048147, 855809, 741152, 662906, 605148, 560258, 524074, 494101, 468746, 446931, 427904>>,
       <<1517427, 1072983, 876087, 758714, 678614, 619487, 573534, 536492, 505809, 479853, 457521, 438043>>,
       <<1548514, 1094965, 894035, 774257, 692516, 632178, 585283, 547482, 516171, 489683, 466895, 447017>>,
       <<1576359, 1114654, 910111, 788179, 704969, 643546, 595808, 557327, 525453, 498488, 475290, 455056>> >>

UcbScale == 1000000

\* "ucb" of MCTS._make_actions_info in units of 10^-6 (the order of two such values
\* is the order of the floats, for the counts of the table); np.inf for n = 0
ucb_of(t, child) ==
    LET n_root == t[t[child].parent].n
        n == t[child].n
        n_wins == t[child].n_wins
    IN IF n > 0
       THEN (UcbScale * n_wins) \div n + DEFAULT_UCB_C * SqrtLogTable[n_root][n]
       ELSE inf * 1000

RECURSIVE best_action_ucb_from_last_tie(_, _, _, _, _)
best_action_ucb_from_last_tie(t, p, k, best_key, best_ucb) ==
    IF k > Len(t[p].children) THEN best_key
    ELSE LET key == t[p].children[k]
             ucb == ucb_of(t, Append(p, key))
         IN IF ucb >= best_ucb
            THEN best_action_ucb_from_last_tie(t, p, k + 1, key, ucb)
            ELSE best_action_ucb_from_last_tie(t, p, k + 1, best_key, best_ucb)

\* the loop of MCTS._best_action_ucb over the keys from position k on
RECURSIVE best_action_ucb_from(_, _, _, _, _)
best_action_ucb_from(t, p, k, best_key, best_ucb) ==
    IF k > Len(t[p].children) THEN best_key
    ELSE LET key == t[p].children[k]
             ucb == ucb_of(t, Append(p, key))
         IN IF ucb > best_ucb
            THEN best_action_ucb_from(t, p, k + 1, key, ucb)
            ELSE best_action_ucb_from(t, p, k + 1, best_key, best_ucb)

\* MCTS._best_action_ucb (best_ucb = -1.0)
best_action_ucb(t, p) == best_action_ucb_from(t, p, 1, None, -UcbScale)

\* MCTS._select
RECURSIVE select(_, _)
select(t, p) ==
    IF Len(t[p].children) > 0
    THEN select(t, Append(p, best_action_ucb(t, p)))
    ELSE p

best_better_first_only(win_flag, n, n_wins, best) ==
    (win_flag /\ ~best.win_flag)
    \/ ((win_flag = best.win_flag) /\ (n > best.n))

\* the condition of MCTS._best_action under which a key replaces the best one
best_better(win_flag, n, n_wins, best) ==
    (win_flag /\ ~best.win_flag)
    \/ ((win_flag = best.win_flag) /\ (n > best.n))
    \/ ((win_flag = best.win_flag) /\ (n = best.n) /\ (n_wins > best.n_wins))

\* the loop of MCTS._best_action over a list of entries [key, win_flag, n, n_wins]
RECURSIVE best_action_from(_, _, _)
best_action_from(entries, k, best) ==
    IF k > Len(entries) THEN best
    ELSE LET e == entries[k]
         IN IF best_better(e.win_flag, e.n, e.n_wins, best)
            THEN best_action_from(entries, k + 1,
                    [action |-> e.key, win_flag |-> e.win_flag, n |-> e.n,
                     n_wins |-> e.n_wins])
            ELSE best_action_from(entries, k + 1, best)

\* MCTS._best_action: best_action, best_win_flag, best_n, best_n_wins
best_action_of(entries) ==
    best_action_from(entries, 1,
        [action |-> None, win_flag |-> FALSE, n |-> -1, n_wins |-> -1])

\* the entries of MCTS._make_actions_info that _best_action reads, in the order of
\* children.keys()
actions_info(t, p) ==
    [k \in 1..Len(t[p].children) |->
        LET ch == t[Append(p, t[p].children[k])]
        IN [key |-> t[p].children[k], win_flag |-> ch.win_flag, n |-> ch.n,
            n_wins |-> ch.n_wins]]

backup_n_gain_two(node) == 2

\* "state.n += 1" of MCTS._backup
backup_n_gain(node) == 1

backup_wins_gain_same_turn(node, outcome) == IF node.turn = outcome THEN 1 ELSE 0

\* "if state.turn == -outcome: state.n_wins += 1" of MCTS._backup
backup_wins_gain(node, outcome) == IF node.turn = -outcome THEN 1 ELSE 0

\* the loop "while state:" of MCTS._backup from the object at p upwards
RECURSIVE backup_from(_, _, _)
backup_from(t, p, outcome) ==
    IF p = NoState THEN t
    ELSE backup_from([t EXCEPT ![p].n = @ + backup_n_gain(t[p]),
                               ![p].n_wins = @ + backup_wins_gain(t[p], outcome)],
                     t[p].parent, outcome)

\* MCTS._backup(state, playout_root)
backup(c, t, st, pr) ==
    LET r == compute_outcome(c, t, st)
    IN backup_from(DropChildren(r.tree, pr), pr, r.outcome)

root_reset_never(m, t, p) == t

root_reset_always(m, t, p) == DropChildren([t EXCEPT ![p].n = 0], p)

\* "if self.vanilla: self.root.n = 0; self.root.children = {}" (mcts.py:499-501)
root_reset(m, t, p) ==
    IF m.vanilla THEN DropChildren([t EXCEPT ![p].n = 0], p) ELSE t

budget_exhausted_time_first(m, f, st, el) ==
    st >= m.search_steps_limit \/ el >= m.search_time_limit \/ st >= f

\* the two conditions of MCTS.run under which the loop breaks
budget_exhausted(m, f, st, el) ==
    IF f < inf THEN st >= f
    ELSE st >= m.search_steps_limit \/ el >= m.search_time_limit

(***************************************************************************)
(* Bounds of the exploration.                                              *)
(***************************************************************************)
\* calls of MCTS.run in one behaviour
MaxRuns == 2
\* steps of all the runs of one behaviour together
MaxSteps == 3
\* largest finite forced_search_steps_limit
MaxForced == 2
\* largest finite search_time_limit, in ticks of the clock
MaxTicks == 1

\* the rows and columns of the boards the searches are explored on, smaller than
\* C4.M x C4.N = 6 x 7, of about 10^12 positions
SearchM == 4
SearchN == 2
\* the rows and columns of the Gomoku boards of the explored games and reductions
SmallM == 3
SmallN == 3

SearchClasses == {[name |-> "C4", M |-> SearchM, N |-> SearchN]}

GameClasses ==
    {[name |-> "C4", M |-> C4_M, N |-> C4_N],
     [name |-> "Gomoku", M |-> SmallM, N |-> SmallN],
     [name |-> "Reversi", M |-> Reversi_M, N |-> Reversi_N]}

\* whether the player to move is the MCTS instance: black moves first and the
\* players alternate (game_runner.py:66-146)
ai_to_move(r, g) == IF Len(g) % 2 = 0 THEN r.black_ai ELSE r.white_ai

\* the finite search_steps_limit of SpecBudget
StepsLimit == 1
\* the moves of the opening in InitEndgame
EndgameMoves == 5
\* the children of the root in InitBest
BestChildren == 3
\* the largest n of a child in InitBest
MaxStat == 1
\* moves of the humans in one game
MaxMoves == 4
\* the record of one call of MCTS.run in hist
Run(r, f, g, st, a) ==
    [root |-> r, forced |-> f, rng |-> g, steps |-> st, best_action |-> a]

RECURSIVE SumSteps(_)
SumSteps(h) == IF h = <<>> THEN 0 ELSE Last(h).steps + SumSteps(Front(h))

(***************************************************************************)
(* The search and the game runner as a state machine.                      *)
(***************************************************************************)
\* GameRunner.run: game = self.game_class(); the AI is MCTS(...) with its defaults
\* or with the budgets given
\* the states that game = game.take_action(move_index); game.compute_outcome()
\* make along the moves from the state at p (game_runner.py:74-99): [tree, ok], ok
\* when every move is legal and the game is not over after any of them
RECURSIVE PlayMoves(_, _, _, _)
PlayMoves(c, t, p, moves) ==
    IF moves = <<>> THEN [tree |-> t, ok |-> TRUE]
    ELSE LET ta == take_action(c, t, p, Head(moves))
         IN IF ta.child = NoState THEN [tree |-> t, ok |-> FALSE]
            ELSE LET r == compute_outcome(c, ta.tree, ta.child)
                 IN IF r.outcome # None THEN [tree |-> r.tree, ok |-> FALSE]
                    ELSE PlayMoves(c, r.tree, ta.child, Tail(moves))

\* the tree of a new game: game = self.game_class() (game_runner.py:60)
NewGame(c) == [p \in {<<>>} |-> State_init(c, <<>>, NoState)]

\* the openings of k moves after which the game goes on
RECURSIVE Openings(_, _)
Openings(c, k) ==
    IF k = 0 THEN {<<>>}
    ELSE {o \in {Append(q, a) : q \in Openings(c, k - 1),
                                 a \in 0..(get_max_actions(c) - 1)} :
            PlayMoves(c, NewGame(c), <<>>, o).ok}

\* the objects after construction: MCTS.__init__ (mcts.py:354-361), which seeds
\* np.random, GameRunner.__init__ and game = self.game_class() (game_runner.py:51-60),
\* and a game that has gone through the moves of opening
Start(c, r, m, opening) ==
    /\ mech = NoMech
    /\ naming = NoNaming
    /\ cls = c
    /\ runner = r
    /\ mcts = m
    /\ tree = PlayMoves(c, NewGame(c), <<>>, opening).tree
    /\ game = opening
    /\ pc = "idle"
    /\ root = NoState
    /\ state = NoState
    /\ playout_root = NoState
    /\ steps = 0
    /\ forced = inf
    /\ elapsed = 0
    /\ best_action = None
    /\ rng_state = "seeded"
    /\ hist = <<>>

\* a game with the MCTS instance on one side or on both, without a budget: only
\* forced_search_steps_limit ends a run
Init ==
    \E c \in SearchClasses :
    \E r \in {x \in [black_ai : BOOLEAN, white_ai : BOOLEAN] : x.black_ai \/ x.white_ai} :
    \E m \in [search_time_limit : {inf}, search_steps_limit : {inf},
               vanilla : BOOLEAN, verbose_info : {TRUE}] :
        Start(c, r, m, <<>>)

\* t2_loop = time.time() (mcts.py:517): the time since t1_loop, in ticks, stays or
\* grows by one tick; it is kept only when there is a time limit to compare it with
ClockRead(m, el) ==
    IF m.search_time_limit >= inf THEN {el}
    ELSE {el, IF el < MaxTicks THEN el + 1 ELSE el}

\* MCTS.run up to the first test of the loop (mcts.py:497-517)
RunStart(f) ==
    /\ UNCHANGED <<mech, naming>>
    /\ pc \in {"idle", "done"}
    /\ ai_to_move(runner, game)
    /\ Len(hist) < MaxRuns
    /\ f < inf => SumSteps(hist) + f <= MaxSteps
    /\ root' = game
    /\ tree' = root_reset(mcts, [tree EXCEPT ![game].parent = NoState], game)
    /\ steps' = 0
    /\ elapsed' \in ClockRead(mcts, 0)
    /\ forced' = f
    /\ pc' = "loop"
    /\ hist' = Append(hist, Run(game, f, rng_state, 0, None))
    /\ UNCHANGED <<cls, runner, mcts, game, state, playout_root, best_action, rng_state>>

\* the loop of MCTS.run breaks (mcts.py:516-522)
LoopBreak ==
    /\ UNCHANGED <<mech, naming>>
    /\ pc = "loop"
    /\ budget_exhausted(mcts, forced, steps, elapsed)
    /\ pc' = "reduce"
    /\ UNCHANGED <<cls, runner, mcts, tree, game, root, state, playout_root, steps, forced,
                   elapsed, best_action, rng_state, hist>>

\* the loop goes on: state = self.root; state = self._select(state) (mcts.py:523-529)
Select ==
    /\ UNCHANGED <<mech, naming>>
    /\ pc = "loop"
    /\ ~budget_exhausted(mcts, forced, steps, elapsed)
    /\ SumSteps(hist) < MaxSteps
    /\ state' = select(tree, root)
    /\ pc' = "expand"
    /\ UNCHANGED <<cls, runner, mcts, tree, game, root, playout_root, steps, forced,
                   elapsed, best_action, rng_state, hist>>

\* state = self._expand(state); playout_root = state (mcts.py:539, 549, 598-604)
Expand ==
    /\ UNCHANGED <<mech, naming>>
    /\ pc = "expand"
    /\ LET t1 == expand(cls, tree, state)
       IN /\ tree' = t1
          /\ IF Len(t1[state].children) > 0
             THEN /\ \E k \in 1..Len(t1[state].children) :
                        /\ state' = Append(state, t1[state].children[k])
                        /\ playout_root' = Append(state, t1[state].children[k])
                  /\ rng_state' = "advanced"
             ELSE /\ playout_root' = state
                  /\ UNCHANGED <<state, rng_state>>
    /\ pc' = "playout"
    /\ UNCHANGED <<cls, runner, mcts, game, root, steps, forced, elapsed, best_action, hist>>

\* one turn of the loop of MCTS._playout that goes on: the outcome is None and
\* state = state.take_random_action_playout() (mcts.py:608-612).  A draw from no
\* index raises in np.random.choice; a drawn action that is illegal gives the state
\* None, on which the next compute_outcome raises.
PlayoutMove ==
    /\ UNCHANGED <<mech, naming>>
    /\ pc = "playout"
    /\ LET r == compute_outcome(cls, tree, state)
           indexes == playout_indexes(cls, r.tree[state])
       IN /\ r.outcome = None
          /\ IF indexes = {}
             THEN /\ pc' = "raised"
                  /\ tree' = r.tree
                  /\ UNCHANGED <<state, rng_state>>
             ELSE \E action_index \in indexes :
                     LET ta == take_action(cls, r.tree, state, action_index)
                     IN /\ tree' = ta.tree
                        /\ rng_state' = "advanced"
                        /\ IF ta.child = NoState
                           THEN pc' = "raised" /\ UNCHANGED state
                           ELSE pc' = "playout" /\ state' = ta.child
    /\ UNCHANGED <<cls, runner, mcts, game, root, playout_root, steps, forced, elapsed,
                   best_action, hist>>

\* the loop of MCTS._playout breaks: the outcome is not None (mcts.py:609-613)
PlayoutEnd ==
    /\ UNCHANGED <<mech, naming>>
    /\ pc = "playout"
    /\ LET r == compute_outcome(cls, tree, state)
       IN /\ r.outcome # None
          /\ tree' = r.tree
    /\ pc' = "backup"
    /\ UNCHANGED <<cls, runner, mcts, game, root, state, playout_root, steps, forced, elapsed,
                   best_action, rng_state, hist>>

\* self._backup(state, playout_root); self.steps += 1; t2_loop = time.time()
\* (mcts.py:560-566, 517)
Backup ==
    /\ UNCHANGED <<mech, naming>>
    /\ pc = "backup"
    /\ tree' = backup(cls, tree, state, playout_root)
    /\ steps' = steps + 1
    /\ elapsed' \in ClockRead(mcts, elapsed)
    /\ state' = NoState
    /\ playout_root' = NoState
    /\ pc' = "loop"
    /\ hist' = [hist EXCEPT ![Len(hist)].steps = steps + 1]
    /\ UNCHANGED <<cls, runner, mcts, game, root, forced, best_action, rng_state>>

\* self._reduce_over_actions() and the rest of MCTS.run (mcts.py:572-588):
\* actions_info[best_key] raises KeyError when the root has no children, and
\* _make_performance_info divides by self.steps
Reduce ==
    /\ UNCHANGED <<mech, naming>>
    /\ pc = "reduce"
    /\ LET best == best_action_of(actions_info(tree, root))
       IN /\ best_action' = best.action
          /\ IF best.action = None \/ (mcts.verbose_info /\ steps = 0)
             THEN pc' = "raised" /\ UNCHANGED hist
             ELSE /\ pc' = "done"
                  /\ hist' = [hist EXCEPT ![Len(hist)].best_action = best.action]
    /\ UNCHANGED <<cls, runner, mcts, tree, game, root, state, playout_root, steps, forced,
                   elapsed, rng_state>>

\* GameRunner.run: game = game.take_action(move_index); outcome = game.compute_outcome()
\* with the move of the AI (game_runner.py:92-106)
AIMove ==
    /\ UNCHANGED <<mech, naming>>
    /\ pc = "done"
    /\ LET ta == take_action(cls, tree, game, best_action)
           r == compute_outcome(cls, ta.tree, ta.child)
       IN /\ game' = ta.child
          /\ tree' = r.tree
          /\ pc' = IF r.outcome # None THEN "over" ELSE "idle"
    /\ UNCHANGED <<cls, runner, mcts, root, state, playout_root, steps, forced, elapsed,
                   best_action, rng_state, hist>>

\* GameRunner.run: the move of a human (game_runner.py:72-79, 99-106): an illegal
\* move leaves game as it is and the player is asked again
HumanMove(move_index) ==
    /\ UNCHANGED <<mech, naming>>
    /\ pc = "idle"
    /\ ~ai_to_move(runner, game)
    /\ Len(game) < MaxMoves
    /\ LET ta == take_action(cls, tree, game, move_index)
       IN IF ta.child = NoState
          THEN UNCHANGED <<tree, game, pc>>
          ELSE LET r == compute_outcome(cls, ta.tree, ta.child)
               IN /\ game' = ta.child
                  /\ tree' = r.tree
                  /\ pc' = IF r.outcome # None THEN "over" ELSE "idle"
    /\ UNCHANGED <<cls, runner, mcts, root, state, playout_root, steps, forced, elapsed,
                   best_action, rng_state, hist>>

Forced == (0..MaxForced) \cup {inf}

Next ==
    \/ \E f \in Forced : RunStart(f)
    \/ LoopBreak
    \/ Select
    \/ Expand
    \/ PlayoutMove
    \/ PlayoutEnd
    \/ Backup
    \/ Reduce
    \/ AIMove
    \/ \E a \in 0..(get_max_actions(cls) - 1) : HumanMove(a)

Spec == Init /\ [][Next]_vars

\* MCTS.__init__ with a budget: a time limit, a steps limit or both
\* (mcts.py:354-358)
InitBudget ==
    \E c \in SearchClasses :
    \E m \in {x \in [search_time_limit : {MaxTicks, inf},
                      search_steps_limit : {StepsLimit, inf},
                      vanilla : BOOLEAN, verbose_info : {TRUE}] :
                x.search_time_limit < inf \/ x.search_steps_limit < inf} :
        Start(c, [black_ai |-> TRUE, white_ai |-> TRUE], m, <<>>)

\* the calls of MCTS.run on one state, without the moves of the game
NextRun ==
    \/ \E f \in Forced : RunStart(f)
    \/ LoopBreak
    \/ Select
    \/ Expand
    \/ PlayoutMove
    \/ PlayoutEnd
    \/ Backup
    \/ Reduce

SpecBudget == InitBudget /\ [][NextRun]_vars

\* the statistics a child of the root may hold when _reduce_over_actions reads it:
\* a child with the win flag has been backed up at least once
ChildStats ==
    {st \in [win_flag : BOOLEAN, n : 0..MaxStat, n_wins : 0..MaxStat] :
        st.n_wins <= st.n /\ (st.win_flag => st.n >= 1)}

\* the root of a Gomoku search, expanded, its children holding any statistics, at
\* the call of _reduce_over_actions (mcts.py:572)
InitBest ==
    /\ mech = NoMech
    /\ naming = NoNaming
    /\ cls = [name |-> "Gomoku", M |-> 1, N |-> BestChildren]
    /\ runner = [black_ai |-> TRUE, white_ai |-> TRUE]
    /\ mcts \in [search_time_limit : {inf}, search_steps_limit : {inf},
                 vanilla : {FALSE}, verbose_info : BOOLEAN]
    /\ \E stats \in [0..(get_max_actions(cls) - 1) -> ChildStats] :
          LET t0 == NewGame(cls)
              t1 == expand(cls, t0, <<>>)
          IN tree = [p \in DOMAIN t1 |->
                        IF p = <<>> THEN [t1[p] EXCEPT !.n = 1]
                        ELSE [t1[p] EXCEPT !.win_flag = stats[Last(p)].win_flag,
                                           !.n = stats[Last(p)].n,
                                           !.n_wins = stats[Last(p)].n_wins]]
    /\ game = <<>>
    /\ pc = "reduce"
    /\ root = <<>>
    /\ state = NoState
    /\ playout_root = NoState
    /\ steps = 1
    /\ forced = 1
    /\ elapsed = 0
    /\ best_action = None
    /\ rng_state = "advanced"
    /\ hist = <<Run(<<>>, 1, "seeded", 1, None)>>

SpecBest == InitBest /\ [][Reduce]_vars

\* MCTS.run on a state late in a game: the game has gone through an opening, and
\* the MCTS instance plays both sides from there
InitEndgame ==
    \E c \in SearchClasses :
    \E o \in Openings(c, EndgameMoves) :
    \E m \in [search_time_limit : {inf}, search_steps_limit : {inf},
               vanilla : BOOLEAN, verbose_info : {TRUE}] :
        Start(c, [black_ai |-> TRUE, white_ai |-> TRUE], m, o)

NextEndgame ==
    \/ \E f \in Forced : RunStart(f)
    \/ LoopBreak
    \/ Select
    \/ Expand
    \/ PlayoutMove
    \/ PlayoutEnd
    \/ Backup
    \/ Reduce
    \/ AIMove

SpecEndgame == InitEndgame /\ [][NextEndgame]_vars

\* a game of two humans on a board of each class (game_runner.py:58-147)
InitGame ==
    \E c \in GameClasses :
    \E m \in [search_time_limit : {inf}, search_steps_limit : {inf},
               vanilla : {FALSE}, verbose_info : {TRUE}] :
        Start(c, [black_ai |-> FALSE, white_ai |-> FALSE], m, <<>>)

NextGame == \E a \in 0..(get_max_actions(cls) - 1) : HumanMove(a)

SpecGame == InitGame /\ [][NextGame]_vars

\* the rows and columns of the Gomoku boards of the explored playouts
PlayoutM == 2
PlayoutN == 2
\* the moves of one explored playout
PlayoutDepth == 3

PlayoutClasses ==
    {[name |-> "C4", M |-> SearchM, N |-> SearchN],
     [name |-> "Gomoku", M |-> PlayoutM, N |-> PlayoutN],
     [name |-> "Reversi", M |-> Reversi_M, N |-> Reversi_N]}

\* searches of each class: of C4 late in a game, of Gomoku and Reversi on the
\* initial state
InitPlayout ==
    \E c \in PlayoutClasses :
    \E o \in (IF c.name = "C4" THEN Openings(c, EndgameMoves) ELSE {<<>>}) :
    \E m \in [search_time_limit : {inf}, search_steps_limit : {inf},
               vanilla : BOOLEAN, verbose_info : {TRUE}] :
        Start(c, [black_ai |-> TRUE, white_ai |-> TRUE], m, o)

\* a turn of the loop of _playout, of the first PlayoutDepth of a playout
PlayoutMoveWithin ==
    /\ Len(state) < Len(playout_root) + PlayoutDepth
    /\ PlayoutMove

NextPlayout ==
    \/ \E f \in Forced : RunStart(f)
    \/ LoopBreak
    \/ Select
    \/ Expand
    \/ PlayoutMoveWithin
    \/ PlayoutEnd
    \/ Backup
    \/ Reduce

SpecPlayout == InitPlayout /\ [][NextPlayout]_vars

(***************************************************************************)
(* The game mechanics functions at work: the five functions of the module   *)
(* (mctsnc_game_mechanics.py:57-103) on the arrays of one state, for the    *)
(* game named by cls on a board of cls.M x cls.N.                           *)
(***************************************************************************)
\* the number of action indexes: the pass of Reversi is one more
mech_max_actions(c) ==
    CASE c.name = "C4" -> c.N
      [] c.name = "Gomoku" -> c.M * c.N
      [] c.name = "Reversi" -> c.M * c.N + 1

is_action_legal(c, me, action) ==
    CASE c.name = "C4" ->
            is_action_legal_c4(c.M, c.N, me.board, me.extra_info, me.turn, action)
      [] c.name = "Gomoku" -> is_action_legal_gomoku(c.M, c.N, me.board, me.turn, action)
      [] c.name = "Reversi" -> is_action_legal_reversi(c.M, c.N, me.board, me.turn, action)

\* take_action: [board, extra_info] after the action
mech_take_action(c, me, action) ==
    CASE c.name = "C4" ->
            take_action_c4(c.M, c.N, me.board, me.extra_info, me.turn, action)
      [] c.name = "Gomoku" ->
            [board |-> take_action_gomoku(c.M, c.N, me.board, me.turn, action),
             extra_info |-> me.extra_info]
      [] c.name = "Reversi" ->
            [board |-> take_action_reversi(c.M, c.N, me.board, me.turn, action),
             extra_info |-> me.extra_info]

\* legal_actions_playout: the first count entries of legal_actions_with_count
legal_actions_playout(c, me) ==
    CASE c.name = "C4" ->
            legal_actions_playout_c4(c.M, c.N, me.board, me.extra_info, me.turn)
      [] c.name = "Gomoku" ->
            legal_actions_playout_gomoku(c.M, c.N, me.board, me.turn, me.legal_actions)
      [] c.name = "Reversi" ->
            legal_actions_playout_reversi(c.M, c.N, me.board, me.turn)

\* take_action_playout: [board, extra_info, legal_actions] after the action, with
\* lawc the list that legal_actions_playout has left
take_action_playout(c, me, action, action_ord, lawc) ==
    CASE c.name = "C4" ->
            LET r == take_action_c4(c.M, c.N, me.board, me.extra_info, me.turn, action)
            IN [board |-> r.board, extra_info |-> r.extra_info, legal_actions |-> lawc]
      [] c.name = "Gomoku" ->
            LET r == take_action_playout_gomoku(c.M, c.N, me.board, me.turn, action,
                                                action_ord, lawc)
            IN [board |-> r.board, extra_info |-> me.extra_info,
                legal_actions |-> r.legal_actions]
      [] c.name = "Reversi" ->
            [board |-> take_action_reversi(c.M, c.N, me.board, me.turn, action),
             extra_info |-> me.extra_info, legal_actions |-> lawc]

mech_compute_outcome(c, board, extra_info, turn, last_action) ==
    CASE c.name = "C4" -> compute_outcome_c4(c.M, c.N, board, extra_info, turn, last_action)
      [] c.name = "Gomoku" -> compute_outcome_gomoku(c.M, c.N, board, turn, last_action)
      [] c.name = "Reversi" -> compute_outcome_reversi(c.M, c.N, board, turn, last_action)

\* the arrays of a state: outcome 2 while the game goes on, moves counts the actions
\* taken since the start and limit bounds them
MechState(board, extra_info, turn, limit) ==
    [board |-> board, extra_info |-> extra_info, turn |-> turn, last_action |-> None,
     outcome |-> 2, legal_actions |-> <<>>, moves |-> 0, limit |-> limit]

\* the arrays after an action: the action is taken, the turn passes to the other
\* player and the outcome is computed for the new state
MechAfter(c, me, r, action) ==
    [me EXCEPT !.board = r.board,
               !.extra_info = r.extra_info,
               !.turn = next_turn(me.turn),
               !.last_action = action,
               !.outcome = mech_compute_outcome(c, r.board, r.extra_info,
                                                next_turn(me.turn), action),
               !.moves = me.moves + 1]

\* one expansion: is_action_legal, take_action and compute_outcome for an action
MechMove(action) ==
    /\ pc = "mech"
    /\ mech.outcome = 2
    /\ mech.moves < mech.limit
    /\ is_action_legal(cls, mech, action)
    /\ mech' = [MechAfter(cls, mech, mech_take_action(cls, mech, action), action)
                    EXCEPT !.legal_actions = <<>>]
    /\ UNCHANGED <<cls, runner, mcts, tree, game, pc, root, state, playout_root, steps,
                   forced, elapsed, best_action, rng_state, hist, naming>>

\* one move of a playout: legal_actions_playout, the draw of action_ord,
\* take_action_playout and compute_outcome
MechPlayout(action_ord) ==
    /\ pc = "mech"
    /\ mech.outcome = 2
    /\ mech.moves < mech.limit
    /\ LET lawc == legal_actions_playout(cls, mech)
       IN /\ action_ord < Len(lawc)
          /\ LET action == lawc[action_ord + 1]
                 r == take_action_playout(cls, mech, action, action_ord, lawc)
             IN mech' = [MechAfter(cls, mech, r, action)
                            EXCEPT !.legal_actions = r.legal_actions]
    /\ UNCHANGED <<cls, runner, mcts, tree, game, pc, root, state, playout_root, steps,
                   forced, elapsed, best_action, rng_state, hist, naming>>

\* the variables of the search and of the naming while the mechanics work
MechIdle(c) ==
    /\ cls = c
    /\ runner = [black_ai |-> FALSE, white_ai |-> FALSE]
    /\ mcts = [search_time_limit |-> inf, search_steps_limit |-> inf,
               vanilla |-> FALSE, verbose_info |-> TRUE]
    /\ tree = NewGame(c)
    /\ game = <<>>
    /\ pc = "mech"
    /\ root = NoState
    /\ state = NoState
    /\ playout_root = NoState
    /\ steps = 0
    /\ forced = inf
    /\ elapsed = 0
    /\ best_action = None
    /\ rng_state = "seeded"
    /\ hist = <<>>
    /\ naming = NoNaming

\* the rows and columns of the Connect 4 board whose games are explored to the end
WalkM == 4
WalkN == 4
\* the openings on the 6 x 7 board: OpeningMoves moves into the first OpeningCols
\* columns, and one move more
OpeningMoves == 6
OpeningCols == 3
\* the crossings of the Gomoku boards of one row or of one column
LineLen == 7
\* the rows and columns of the Gomoku boards with a drawn diagonal
DiagLen == 6
\* the moves from the opening of Reversi on the 8 x 8 board
MechDepth == 3
\* the crossings of the Reversi boards of one row
RayLen == 5
\* the actions taken from a drawn board
BoardMoves == 1
\* the actions taken from a drawn Gomoku board of one row or of one column
LineMoves == 2

\* the arrays of the initial state of a game, from the constructor of its class
MechNew(c, limit) ==
    LET g == class_init(c)
    IN MechState(g.board, IF c.name = "C4" THEN g.column_fills ELSE <<>>, 1, limit)

\* the arrays after the expansions along moves: [me, ok], ok when every action is
\* legal and the game goes on after each
RECURSIVE MechPlay(_, _, _)
MechPlay(c, me, moves) ==
    IF moves = <<>> THEN [me |-> me, ok |-> TRUE]
    ELSE IF ~is_action_legal(c, me, Head(moves)) THEN [me |-> me, ok |-> FALSE]
    ELSE LET after == MechAfter(c, me, mech_take_action(c, me, Head(moves)), Head(moves))
         IN IF after.outcome # 2 THEN [me |-> after, ok |-> FALSE]
            ELSE MechPlay(c, after, Tail(moves))

\* the games explored from their first state: Connect 4 on a small board to the end
\* and on the 6 x 7 board after an opening, Gomoku on boards of one row, of one
\* column and on a small square, Reversi from its opening
InitMech ==
    \/ /\ MechIdle([name |-> "C4", M |-> WalkM, N |-> WalkN])
       /\ mech = MechNew(cls, WalkM * WalkN)
    \/ /\ MechIdle([name |-> "C4", M |-> C4_M, N |-> C4_N])
       /\ \E o \in [1..OpeningMoves -> 0..(OpeningCols - 1)] :
             LET r == MechPlay(cls, MechNew(cls, OpeningMoves + 1), o)
             IN r.ok /\ mech = r.me
    \/ /\ \E c \in {[name |-> "Gomoku", M |-> 1, N |-> LineLen],
                      [name |-> "Gomoku", M |-> LineLen, N |-> 1],
                      [name |-> "Gomoku", M |-> SmallM, N |-> SmallN]} : MechIdle(c)
       /\ mech = MechNew(cls, cls.M * cls.N)
    \/ /\ MechIdle([name |-> "Reversi", M |-> Reversi_M, N |-> Reversi_N])
       /\ mech = MechNew(cls, MechDepth)

NextMech == \E a \in 0..(mech_max_actions(cls) - 1) : MechMove(a)

SpecMech == InitMech /\ [][NextMech]_vars

\* the rows and columns of the Gomoku boards whose playouts are explored to the end
CompactM == 2
CompactN == 3

\* a playout of Gomoku from any board, its list of legal actions not established
InitCompact ==
    /\ MechIdle([name |-> "Gomoku", M |-> CompactM, N |-> CompactN])
    /\ \E turn \in {-1, 1} :
       \E b \in [Cells(CompactM, CompactN) -> {-1, 0, 1}] :
           mech = MechState(b, <<>>, turn, CompactM * CompactN)

NextCompact == \E action_ord \in 0..(mech_max_actions(cls) - 1) : MechPlayout(action_ord)

SpecCompact == InitCompact /\ [][NextCompact]_vars

\* the games of Connect 4 from the empty board of SmallM x SmallN: the functions
\* of the mechanics take expansions and playout moves on the arrays, or the class
\* takes the moves of two humans
InitDiscs ==
    \/ /\ MechIdle([name |-> "C4", M |-> SmallM, N |-> SmallN])
       /\ mech = MechNew(cls, SmallM * SmallN)
    \/ \E m \in [search_time_limit : {inf}, search_steps_limit : {inf},
                  vanilla : {FALSE}, verbose_info : {TRUE}] :
          Start([name |-> "C4", M |-> SmallM, N |-> SmallN],
                [black_ai |-> FALSE, white_ai |-> FALSE], m, <<>>)

NextDiscs ==
    \/ \E a \in 0..(mech_max_actions(cls) - 1) : MechMove(a)
    \/ \E action_ord \in 0..(mech_max_actions(cls) - 1) : MechPlayout(action_ord)
    \/ \E a \in 0..(get_max_actions(cls) - 1) : HumanMove(a)

SpecDiscs == InitDiscs /\ [][NextDiscs]_vars

\* the stacks of discs a column of m rows can hold, from the bottom up
ColumnStacks(m) == UNION {[1..h -> {-1, 1}] : h \in 0..m}

\* the board of Connect 4 that holds the stacks cols[0], ..., cols[n - 1]
StackedBoard(m, n, cols) ==
    [x \in Cells(m, n) |->
        IF m - x[1] <= Len(cols[x[2]]) THEN cols[x[2]][m - x[1]] ELSE 0]

\* the stones on the crossings off the drawn diagonal of a Gomoku board
Filler(i, j) == IF ((i \div 2) + (j \div 2)) % 2 = 0 THEN 1 ELSE -1

\* the boards and turns given to the functions of the mechanics as arguments:
\* Connect 4 boards of any stacks of discs, Gomoku boards of one row and of one
\* column with any stones and square boards with any stones on one diagonal,
\* Reversi boards with any discs
InitBoards ==
    \E turn \in {-1, 1} :
    \/ /\ MechIdle([name |-> "C4", M |-> SmallM, N |-> SmallN])
       /\ \E cols \in [0..(SmallN - 1) -> ColumnStacks(SmallM)] :
             mech = MechState(StackedBoard(SmallM, SmallN, cols),
                              [j \in 0..(SmallN - 1) |-> Len(cols[j])], turn, BoardMoves)
    \/ /\ \E c \in {[name |-> "Gomoku", M |-> 1, N |-> LineLen],
                      [name |-> "Gomoku", M |-> LineLen, N |-> 1]} : MechIdle(c)
       /\ \E b \in [Cells(cls.M, cls.N) -> {-1, 0, 1}] :
             mech = MechState(b, <<>>, turn, LineMoves)
    \/ /\ MechIdle([name |-> "Gomoku", M |-> DiagLen, N |-> DiagLen])
       /\ \E anti \in BOOLEAN :
          \E d \in [0..(DiagLen - 1) -> {-1, 0, 1}] :
             mech = MechState([x \in Cells(DiagLen, DiagLen) |->
                                  IF ~anti /\ x[1] = x[2] THEN d[x[1]]
                                  ELSE IF anti /\ x[1] + x[2] = DiagLen - 1 THEN d[x[1]]
                                  ELSE Filler(x[1], x[2])],
                              <<>>, turn, BoardMoves)
    \/ /\ \E c \in {[name |-> "Reversi", M |-> SmallM, N |-> SmallN],
                      [name |-> "Reversi", M |-> 1, N |-> RayLen]} : MechIdle(c)
       /\ \E b \in [Cells(cls.M, cls.N) -> {-1, 0, 1}] :
             mech = MechState(b, <<>>, turn, BoardMoves)

NextBoards ==
    \/ \E a \in 0..(mech_max_actions(cls) - 1) : MechMove(a)
    \/ \E action_ord \in 0..(mech_max_actions(cls) - 1) : MechPlayout(action_ord)

SpecBoards == InitBoards /\ [][NextBoards]_vars

(***************************************************************************)
(* The names of the moves in GameRunner.run: the index of the move of an AI *)
(* is printed by its name (game_runner.py:93), the name a human types is    *)
(* read as an index (game_runner.py:75).                                    *)
(***************************************************************************)
\* the game classes with the boards of the source
NameClasses ==
    {[name |-> "C4", M |-> C4_M, N |-> C4_N],
     [name |-> "Gomoku", M |-> Gomoku_M, N |-> Gomoku_N],
     [name |-> "Reversi", M |-> Reversi_M, N |-> Reversi_N]}

\* an action index of a game class, not named yet
InitNames ==
    \E c \in NameClasses :
    \E a \in 0..(get_max_actions(c) - 1) :
        /\ cls = c
        /\ runner = [black_ai |-> TRUE, white_ai |-> FALSE]
        /\ mcts = [search_time_limit |-> inf, search_steps_limit |-> inf,
                   vanilla |-> FALSE, verbose_info |-> TRUE]
        /\ tree = NewGame(c)
        /\ game = <<>>
        /\ pc = "naming"
        /\ root = NoState
        /\ state = NoState
        /\ playout_root = NoState
        /\ steps = 0
        /\ forced = inf
        /\ elapsed = 0
        /\ best_action = None
        /\ rng_state = "seeded"
        /\ hist = <<>>
        /\ mech = NoMech
        /\ naming = [index |-> a, name |-> <<>>, back |-> None]

\* move_name = self.game_class.action_index_to_name(move_index)
NameIndex ==
    /\ pc = "naming"
    /\ naming.name = <<>>
    /\ naming' = [naming EXCEPT !.name = action_index_to_name(cls, naming.index)]
    /\ UNCHANGED <<cls, runner, mcts, tree, game, pc, root, state, playout_root, steps,
                   forced, elapsed, best_action, rng_state, hist, mech>>

\* move_index = self.game_class.action_name_to_index(move_name)
ReadName ==
    /\ pc = "naming"
    /\ naming.name # <<>>
    /\ naming.back = None
    /\ naming' = [naming EXCEPT !.back = action_name_to_index(cls, naming.name)]
    /\ UNCHANGED <<cls, runner, mcts, tree, game, pc, root, state, playout_root, steps,
                   forced, elapsed, best_action, rng_state, hist, mech>>

NextNames == NameIndex \/ ReadName

SpecNames == InitNames /\ [][NextNames]_vars

(***************************************************************************)
(* The moves a human types (game_runner.py:69-84, 107-122).                 *)
(***************************************************************************)
\* int(s) raises ValueError: s is empty or has a character that is no digit
py_int_raises(s) ==
    s = <<>> \/ \E k \in 1..Len(s) : \A d \in 1..Len(DigitChars) : DigitChars[d] # s[k]

\* action_name_to_index raises: int() of C4; action_name[0] and int() of Gomoku
action_name_to_index_raises(c, action_name) ==
    CASE c.name = "C4" -> py_int_raises(action_name)
      [] c.name = "Gomoku" -> action_name = <<>> \/ py_int_raises(Tail(action_name))

\* take_action_job raises IndexError: self.column_fills[j] of C4 with j beyond
\* the columns; Gomoku tests the row and the column itself
take_action_job_raises(c, action_index) ==
    CASE c.name = "C4" -> action_index >= SN(c) \/ action_index < -SN(c)
      [] c.name = "Gomoku" -> FALSE

\* the classes of the games with typed moves
InputClasses ==
    {[name |-> "C4", M |-> SearchM, N |-> SearchN],
     [name |-> "Gomoku", M |-> SmallM, N |-> SmallN]}

\* the names typed: those of all the actions of the game, one past the last
\* column, one past the last row, and names that are no number or have no row
InputNames(c) ==
    {action_index_to_name(c, a) : a \in 0..(get_max_actions(c) - 1)}
    \cup (CASE c.name = "C4" -> {py_str(SN(c)), <<"x">>, <<>>}
            [] c.name = "Gomoku" ->
                 {<<chr_from_A(SN(c))>> \o py_str(1), <<"A">> \o py_str(SM(c) + 1),
                  <<"A">>, <<>>})

\* one turn of the loop "while not (move_valid or escaped)" and, after a valid
\* move, outcome = game.compute_outcome() (game_runner.py:69-106): the name typed
\* is kept in naming
HumanInput(move_name) ==
    /\ pc = "idle"
    /\ ~ai_to_move(runner, game)
    /\ Len(game) < MaxMoves
    /\ IF action_name_to_index_raises(cls, move_name)
       THEN /\ pc' = "escaped"
            /\ naming' = [index |-> None, name |-> move_name, back |-> None]
            /\ UNCHANGED <<tree, game>>
       ELSE LET move_index == action_name_to_index(cls, move_name)
            IN /\ naming' = [index |-> move_index, name |-> move_name, back |-> None]
               /\ IF take_action_job_raises(cls, move_index)
                  THEN pc' = "escaped" /\ UNCHANGED <<tree, game>>
                  ELSE LET ta == take_action(cls, tree, game, move_index)
                       IN IF ta.child = NoState
                          THEN UNCHANGED <<tree, game, pc>>
                          ELSE LET r == compute_outcome(cls, ta.tree, ta.child)
                               IN /\ game' = ta.child
                                  /\ tree' = r.tree
                                  /\ pc' = IF r.outcome # None THEN "over" ELSE "idle"
    /\ UNCHANGED <<cls, runner, mcts, root, state, playout_root, steps, forced, elapsed,
                   best_action, rng_state, hist, mech>>

\* a game of two humans who type their moves
InitInput ==
    \E c \in InputClasses :
    \E m \in [search_time_limit : {inf}, search_steps_limit : {inf},
               vanilla : {FALSE}, verbose_info : {TRUE}] :
        Start(c, [black_ai |-> FALSE, white_ai |-> FALSE], m, <<>>)

NextInput == \E move_name \in InputNames(cls) : HumanInput(move_name)

SpecInput == InitInput /\ [][NextInput]_vars

-----------------------------------------------------------------------------
\* C1: a run forced to F steps leaves the loop exactly when steps = F; any other run
\* leaves it at the first test of the loop where steps has reached
\* search_steps_limit or the time since the start has reached search_time_limit;
\* the loop is left only at its test, never inside a step
C1_Budget ==
    [][ /\ (pc = "loop" /\ pc' # "loop") =>
            /\ pc' \in {"reduce", "expand"}
            /\ (pc' = "reduce") <=>
                  IF forced < inf THEN steps = forced
                  ELSE steps >= mcts.search_steps_limit
                       \/ elapsed >= mcts.search_time_limit
        /\ (pc \in {"expand", "playout", "backup"}) => pc' # "reduce"
        /\ (pc' \in {"reduce", "done"} /\ forced' < inf) => steps' = forced'
      ]_vars

\* a run that the time limit alone ended, after one whole step
C1_Witness ==
    /\ pc = "reduce"
    /\ forced = inf
    /\ mcts.search_steps_limit = inf
    /\ elapsed >= mcts.search_time_limit
    /\ steps = 1

\* the sum of n over the children of node p
RECURSIVE SumChildrenN(_, _, _)
SumChildrenN(t, p, k) ==
    IF k > Len(t[p].children) THEN 0
    ELSE t[Append(p, t[p].children[k])].n + SumChildrenN(t, p, k + 1)

\* C2: every step adds exactly one to root.n, and in vanilla mode, between the
\* steps and after the run, the n of the children of the root add up to the
\* number of steps made, which is root.n
C2_RootCount ==
    /\ [][(pc = "backup" /\ pc' = "loop") => tree'[root].n = tree[root].n + 1]_vars
    /\ []((mcts.vanilla /\ pc \in {"loop", "reduce", "done"}) =>
            /\ tree[root].n = steps
            /\ SumChildrenN(tree, root, 1) = steps)

\* a vanilla run of two steps has returned
C2_Witness ==
    /\ mcts.vanilla
    /\ pc = "done"
    /\ steps = 2
    /\ SumChildrenN(tree, root, 1) = 2

\* the key by which _best_action compares two children
BestKey(e) == <<IF e.win_flag THEN 1 ELSE 0, e.n, e.n_wins>>

LexLess(a, b) ==
    \/ a[1] < b[1]
    \/ (a[1] = b[1] /\ a[2] < b[2])
    \/ (a[1] = b[1] /\ a[2] = b[2] /\ a[3] < b[3])

C4_WinsWithinVisits ==
    \A p \in DOMAIN tree : tree[p].n_wins <= tree[p].n

\* C5: every node made by take_action holds the turn opposite to that of the
\* node it was made from, in C4, Gomoku and Reversi
C5_TurnAlternates ==
    \A p \in DOMAIN tree : p # <<>> => tree[p].turn = -tree[Front(p)].turn

\* a game of Reversi has made three moves
C5_Witness ==
    /\ cls.name = "Reversi"
    /\ Len(game) = 3
    /\ tree[game].turn = -tree[Front(game)].turn

\* C6: a node whose outcome has been computed as -1, 0 or 1 never has children:
\* State.expand leaves it alone and the playout stops at it
C6_TerminalsNotExpanded ==
    \A p \in DOMAIN tree :
        (tree[p].outcome_computed /\ tree[p].outcome \in {-1, 0, 1}) =>
            tree[p].children = <<>>

\* the selection has come down to a terminal node, a child of a node expanded in
\* an earlier step (one of its children has been visited), and the expansion has
\* left it as the root of the playout, without children
C6_Witness ==
    /\ pc = "playout"
    /\ state = playout_root
    /\ state # root
    /\ tree[state].outcome_computed
    /\ tree[state].outcome \in {-1, 0, 1}
    /\ tree[state].children = <<>>
    /\ \E k \in 1..Len(tree[Front(state)].children) :
          tree[Append(Front(state), tree[Front(state)].children[k])].n >= 1

C8_SameAction ==
    \A i, j \in 1..Len(hist) :
        (/\ hist[i].root = hist[j].root
         /\ hist[i].forced = hist[j].forced
         /\ hist[i].forced < inf
         /\ hist[i].best_action # None
         /\ hist[j].best_action # None)
        => hist[i].best_action = hist[j].best_action

\* the n and n_wins of the children of node p, in the order of the children
ChildrenStats(t, p) ==
    [k \in 1..Len(t[p].children) |->
        LET ch == t[Append(p, t[p].children[k])]
        IN <<t[p].children[k], ch.n, ch.n_wins>>]

\* C9: without vanilla, the moves of the game after a search and the start of the
\* next run leave the children of every node, and so of the new root, with the n and
\* n_wins they had at the end of the search, and during a run the n and n_wins of
\* the children of the root never decrease; with vanilla a run starts from a root
\* with n = 0 and no children
C9_Reroot ==
    [][ /\ (~mcts.vanilla /\ pc \in {"idle", "done"}) =>
            \A p \in DOMAIN tree :
                \A k \in 1..Len(tree[p].children) :
                    /\ k <= Len(tree'[p].children)
                    /\ ChildrenStats(tree', p)[k] = ChildrenStats(tree, p)[k]
        /\ (~mcts.vanilla /\ pc \in {"idle", "done"} /\ pc' = "loop") =>
            ChildrenStats(tree', root') = ChildrenStats(tree, game)
        /\ (~mcts.vanilla /\ pc \in {"loop", "expand", "playout", "backup", "reduce"}) =>
            \A k \in 1..Len(tree[root].children) :
                /\ k <= Len(tree'[root].children)
                /\ ChildrenStats(tree', root)[k][1] = ChildrenStats(tree, root)[k][1]
                /\ ChildrenStats(tree', root)[k][2] >= ChildrenStats(tree, root)[k][2]
                /\ ChildrenStats(tree', root)[k][3] >= ChildrenStats(tree, root)[k][3]
        /\ (mcts.vanilla /\ pc \in {"idle", "done"} /\ pc' = "loop") =>
            tree'[root'].n = 0 /\ tree'[root'].children = <<>>
      ]_vars

\* without vanilla, a second run has started on the child that the action of the
\* first run leads to, and a child of this new root holds visits of the first run
C9_Witness ==
    /\ ~mcts.vanilla
    /\ Len(hist) = 2
    /\ hist[1].best_action # None
    /\ root = Append(hist[1].root, hist[1].best_action)
    /\ pc = "loop"
    /\ steps = 0
    /\ \E k \in 1..Len(tree[root].children) : ChildrenStats(tree, root)[k][2] >= 1

\* the actions the Reversi class takes from state s: take_action_job returns True
ReversiClassLegal(s) ==
    {a \in 0..(get_max_actions(cls) - 1) : take_action_job(cls, s, a).legal}

\* the actions is_action_legal_reversi marks legal on the board and turn of s
ReversiMechLegal(s) ==
    {a \in 0..(cls.M * cls.N) : is_action_legal_reversi(cls.M, cls.N, s.board, s.turn, a)}

ReversiLegalAgree(s) == ReversiClassLegal(s) = ReversiMechLegal(s)

\* the actions take_random_action_playout draws from are those of
\* legal_actions_playout_reversi
ReversiPlayoutAgree(s) ==
    playout_indexes(cls, s)
        = SeqRange(legal_actions_playout_reversi(cls.M, cls.N, s.board, s.turn))

\* the boards after an action that both sides take
ReversiBoardAgree(s) ==
    \A a \in ReversiClassLegal(s) \cap ReversiMechLegal(s) :
        take_action_job(cls, s, a).s.board
            = take_action_reversi(cls.M, cls.N, s.board, s.turn, a)

\* the outcomes, None of the class standing for 2 of the mechanics
ReversiOutcomeAgree(t, p) ==
    LET o == compute_outcome(cls, t, p).outcome
    IN (IF o = None THEN 2 ELSE o)
          = compute_outcome_reversi(cls.M, cls.N, t[p].board, t[p].turn,
                                    t[p].last_action_index)

\* C10: on every state of a game of Reversi the class and the mechanics functions
\* agree on the legal actions, on the actions of a playout, on the board after an
\* action and on the outcome
C10_ReversiAgree ==
    cls.name = "Reversi" =>
        /\ ReversiLegalAgree(tree[game])
        /\ ReversiPlayoutAgree(tree[game])
        /\ ReversiBoardAgree(tree[game])
        /\ ReversiOutcomeAgree(tree, game)

\* the object of the game class that holds the arrays of the mechanics
ClassState(me) ==
    [board |-> me.board, column_fills |-> me.extra_info, turn |-> me.turn,
     last_action_index |-> me.last_action]

\* None of the class for 2 of the mechanics
AsMechOutcome(o) == IF o = None THEN 2 ELSE o

\* C11: on every state of a game of Connect 4 or Gomoku played from the empty board,
\* is_action_legal marks an action legal exactly when take_action_job of the class
\* returns True, compute_outcome returns the outcome of compute_outcome_job (2 for
\* None), and take_action leaves the board, and for Connect 4 the column fills,
\* that the class leaves
C11_MechMatchesClass ==
    /\ [](cls.name \in {"C4", "Gomoku"} =>
            /\ \A a \in 0..(mech_max_actions(cls) - 1) :
                  is_action_legal(cls, mech, a)
                      <=> take_action_job(cls, ClassState(mech), a).legal
            /\ mech.last_action # None =>
                  mech.outcome = AsMechOutcome(compute_outcome_job(cls, ClassState(mech))))
    /\ [][(cls.name \in {"C4", "Gomoku"} /\ mech'.moves = mech.moves + 1) =>
            LET job == take_action_job(cls, ClassState(mech), mech'.last_action)
            IN /\ job.legal
               /\ mech'.board = job.s.board
               /\ mech'.turn = job.s.turn
               /\ mech'.extra_info = job.s.column_fills]_vars

\* a game of Connect 4 that the last disc has won, with a full column
C11_Witness ==
    /\ cls.name = "C4"
    /\ mech.outcome = -mech.turn
    /\ \E j \in 0..(cls.N - 1) : ~is_action_legal(cls, mech, j)
    /\ compute_outcome_job(cls, ClassState(mech)) = mech.outcome

\* the crossing (i, j) lies on a line of len crossings in a row, a column or a
\* diagonal, all of them on the board and holding token
OnLineOf(m, n, board, i, j, token, len) ==
    \E d \in {<<1, 0>>, <<0, 1>>, <<1, 1>>, <<1, -1>>} :
    \E s \in 0..(len - 1) :
    \A t \in 0..(len - 1) :
        /\ InBoard(m, n, i + (t - s) * d[1], j + (t - s) * d[2])
        /\ board[i + (t - s) * d[1], j + (t - s) * d[2]] = token

\* the outcome Connect 4 gives to a board whose last disc went into column j
C4Expected(m, n, board, extra_info, mover, j) ==
    IF OnLineOf(m, n, board, m - extra_info[j], j, mover, 4) THEN mover
    ELSE IF \A x \in Cells(m, n) : board[x] # 0 THEN 0
    ELSE 2

\* Connect 4 on the 6 x 7 board
C4Class == [name |-> "C4", M |-> C4_M, N |-> C4_N]

\* the arrays after the columns 0, 0, 1, 0, 2, 0 and then a from the empty board
C4Scenario(a) ==
    MechPlay(C4Class, MechNew(C4Class, OpeningMoves + 1), <<0, 0, 1, 0, 2, 0, a>>).me

\* C12: after a legal move of Connect 4 the outcome, of compute_outcome_c4 and of
\* C4.compute_outcome_job, is the sign of the mover exactly when the disc just
\* dropped lies on a line of at least 4 discs of the mover, else 0 on a full board
\* and ongoing otherwise; the columns 0, 0, 1, 0, 2, 0, 3 from the empty 6 x 7 board
\* give +1 and any other seventh column gives ongoing
C12_C4Outcome ==
    (cls.name = "C4" /\ mech.last_action # None) =>
        /\ mech.outcome = C4Expected(cls.M, cls.N, mech.board, mech.extra_info,
                                     -mech.turn, mech.last_action)
        /\ AsMechOutcome(compute_outcome_job(cls, ClassState(mech)))
              = C4Expected(cls.M, cls.N, mech.board, mech.extra_info,
                           -mech.turn, mech.last_action)
        /\ (cls = C4Class /\ mech.moves = 7) =>
              \A a \in 0..(C4_N - 1) :
                  mech.board = C4Scenario(a).board =>
                      mech.outcome = (IF a = 3 THEN 1 ELSE 2)

\* the seventh disc of the columns 0, 0, 1, 0, 2, 0, 3 has just won
C12_Witness ==
    /\ cls = C4Class
    /\ mech.moves = 7
    /\ mech.last_action = 3
    /\ mech.board = C4Scenario(3).board
    /\ mech.outcome = 1

\* board and fills b are those of a with the sign of mover dropped into column j:
\* the lowest empty cell of the column holds it, the fill of the column is one more
\* and no other cell or fill differs
C4Dropped(m, n, a_board, a_fills, b_board, b_fills, mover, j) ==
    LET f == a_fills[j]
    IN /\ f < m
       /\ a_board[m - 1 - f, j] = 0
       /\ \A i \in (m - f)..(m - 1) : a_board[i, j] # 0
       /\ b_board[m - 1 - f, j] = mover
       /\ \A x \in Cells(m, n) : x # <<m - 1 - f, j>> => b_board[x] = a_board[x]
       /\ b_fills[j] = f + 1
       /\ \A k \in 0..(n - 1) : k # j => b_fills[k] = a_fills[k]

\* C13: in Connect 4 action j is legal, for is_action_legal_c4 and for
\* C4.take_action_job, exactly when column_fills[j] < M; a legal action writes the
\* sign of the mover into the lowest empty cell of column j, adds one to the fill
\* of the column and changes no other cell or fill; C4.take_action_job on a full
\* column returns False and leaves the board, the fills and the turn as they are
C13_C4Move ==
    /\ [](cls.name = "C4" =>
            \A j \in 0..(cls.N - 1) :
                LET job == take_action_job(cls, ClassState(mech), j)
                    r == mech_take_action(cls, mech, j)
                IN /\ is_action_legal(cls, mech, j) <=> mech.extra_info[j] < cls.M
                   /\ job.legal <=> mech.extra_info[j] < cls.M
                   /\ mech.extra_info[j] < cls.M =>
                         /\ C4Dropped(cls.M, cls.N, mech.board, mech.extra_info,
                                      job.s.board, job.s.column_fills, mech.turn, j)
                         /\ C4Dropped(cls.M, cls.N, mech.board, mech.extra_info,
                                      r.board, r.extra_info, mech.turn, j)
                   /\ mech.extra_info[j] = cls.M =>
                         /\ ~job.legal
                         /\ job.s = ClassState(mech))
    /\ [][(cls.name = "C4" /\ mech'.moves = mech.moves + 1) =>
            C4Dropped(cls.M, cls.N, mech.board, mech.extra_info, mech'.board,
                      mech'.extra_info, mech.turn, mech'.last_action)]_vars

\* a disc has just been dropped onto other discs while another column is full
C13_Witness ==
    /\ cls.name = "C4"
    /\ mech.last_action # None
    /\ mech.extra_info[mech.last_action] >= 2
    /\ \E j \in 0..(cls.N - 1) :
          /\ j # mech.last_action
          /\ mech.extra_info[j] = cls.M
          /\ ~take_action_job(cls, ClassState(mech), j).legal

\* the length of the longest unbroken run of token through the crossing (i, j)
\* along the line of direction d
MaxRun(m, n, board, i, j, d, token) ==
    LET holds(t) == /\ InBoard(m, n, i + t * d[1], j + t * d[2])
                    /\ board[i + t * d[1], j + t * d[2]] = token
        joined(t) == \A u \in (IF t < 0 THEN t ELSE 0)..(IF t < 0 THEN 0 ELSE t) : holds(u)
    IN Cardinality({t \in (-(m + n))..(m + n) : joined(t)})

FourLines == {<<1, 0>>, <<0, 1>>, <<1, 1>>, <<1, -1>>}

\* the outcome Gomoku gives to a board whose last stone went to the crossing a
GomokuExpected(m, n, board, mover, a) ==
    IF \E d \in FourLines : MaxRun(m, n, board, a \div n, a % n, d, mover) = 5
    THEN mover
    ELSE IF \A x \in Cells(m, n) : board[x] # 0 THEN 0
    ELSE 2

\* C14: after a stone is placed on an empty crossing of Gomoku the outcome, of
\* compute_outcome_gomoku and of Gomoku.compute_outcome_job, is the sign of the
\* mover exactly when along one of the four lines the longest unbroken run of the
\* mover through that stone is exactly 5 long (a run of 6 or more alone is no win);
\* without a win it is 0 when no crossing is empty and ongoing otherwise
C14_GomokuOutcome ==
    (cls.name = "Gomoku" /\ mech.last_action # None) =>
        /\ mech.outcome = GomokuExpected(cls.M, cls.N, mech.board, -mech.turn,
                                         mech.last_action)
        /\ AsMechOutcome(compute_outcome_job(cls, ClassState(mech)))
              = GomokuExpected(cls.M, cls.N, mech.board, -mech.turn, mech.last_action)

\* the stone just placed has made a run of 6 or more and the game goes on
C14_Witness ==
    /\ cls.name = "Gomoku"
    /\ mech.last_action # None
    /\ \E d \in FourLines :
          MaxRun(cls.M, cls.N, mech.board, mech.last_action \div cls.N,
                 mech.last_action % cls.N, d, -mech.turn) >= 6
    /\ mech.outcome = 2
    /\ compute_outcome_job(cls, ClassState(mech)) = None

\* the discs of the opponent bracketed from the crossing (i, j): along a ray from
\* it, one or more discs of the opponent in a row followed by a disc of mover
Bracketed(m, n, board, i, j, mover) ==
    UNION {{<<i + t * d[1], j + t * d[2]>> : t \in 1..len} :
              <<d, len>> \in {y \in Directions8 \X (1..(m + n)) :
                  /\ \A u \in 1..y[2] :
                        /\ InBoard(m, n, i + u * y[1][1], j + u * y[1][2])
                        /\ board[i + u * y[1][1], j + u * y[1][2]] = -mover
                  /\ InBoard(m, n, i + (y[2] + 1) * y[1][1], j + (y[2] + 1) * y[1][2])
                  /\ board[i + (y[2] + 1) * y[1][1], j + (y[2] + 1) * y[1][2]] = mover}}

\* the board of Reversi after mover has played on the crossing (i, j)
ReversiExpected(m, n, board, i, j, mover) ==
    LET turned == Bracketed(m, n, board, i, j, mover)
    IN [x \in Cells(m, n) |-> IF x = <<i, j>> \/ x \in turned THEN mover ELSE board[x]]

Discs(m, n, board) == Cardinality({x \in Cells(m, n) : board[x] # 0})

ReversiOpening == Reversi_init(Reversi_M, Reversi_N).board

\* C16: in the opening of Reversi on the 8 x 8 board, black to move, the legal
\* actions are exactly D3, C4, F5 and E6, which legal_actions_playout_reversi lists
\* with the count 4, and D3 turns exactly one disc, the white disc at D4
C16_ReversiOpening ==
    (cls.name = "Reversi" /\ cls.M = Reversi_M /\ cls.N = Reversi_N) =>
        /\ mech.moves = 0 =>
              LET lawc == legal_actions_playout_reversi(cls.M, cls.N, mech.board, mech.turn)
              IN /\ mech.board = ReversiOpening
                 /\ mech.turn = 1
                 /\ Len(lawc) = 4
                 /\ {action_index_to_name(cls, a) : a \in SeqRange(lawc)}
                       = {<<"D", "3">>, <<"C", "4">>, <<"F", "5">>, <<"E", "6">>}
                 /\ {action_index_to_name(cls, a) :
                        a \in {b \in 0..(cls.M * cls.N) :
                                  is_action_legal(cls, mech, b)}}
                       = {<<"D", "3">>, <<"C", "4">>, <<"F", "5">>, <<"E", "6">>}
        /\ (mech.moves = 1 /\ action_index_to_name(cls, mech.last_action) = <<"D", "3">>) =>
              LET D4 == action_name_to_index(cls, <<"D", "4">>)
                  changed == {x \in Cells(cls.M, cls.N) : mech.board[x] # ReversiOpening[x]}
              IN /\ changed = {<<mech.last_action \div cls.N, mech.last_action % cls.N>>,
                               <<D4 \div cls.N, D4 % cls.N>>}
                 /\ ReversiOpening[D4 \div cls.N, D4 % cls.N] = -1
                 /\ mech.board[D4 \div cls.N, D4 % cls.N] = 1

\* black has played D3 from the opening
C16_Witness ==
    /\ cls.name = "Reversi"
    /\ mech.moves = 1
    /\ mech.last_action = 19
    /\ action_index_to_name(cls, mech.last_action) = <<"D", "3">>
    /\ mech.board[3, 3] = 1

\* the row numbers 1, 2, ..., 15 as they are written
RowNames ==
    << <<"1">>, <<"2">>, <<"3">>, <<"4">>, <<"5">>, <<"6">>, <<"7">>, <<"8">>, <<"9">>,
       <<"1", "0">>, <<"1", "1">>, <<"1", "2">>, <<"1", "3">>, <<"1", "4">>, <<"1", "5">> >>

HasMove(m, n, board, side) ==
    \E x \in Cells(m, n) :
        board[x] = 0 /\ Bracketed(m, n, board, x[1], x[2], side) # {}

\* C17: is_action_legal_reversi marks the pass m * n legal only when the side to
\* move has no other legal move and the opponent has one, and in every such
\* position the pass is legal and no other action is
C17_PassLegality ==
    cls.name = "Reversi" =>
        LET pass == cls.M * cls.N
            stuck == /\ ~HasMove(cls.M, cls.N, mech.board, mech.turn)
                     /\ HasMove(cls.M, cls.N, mech.board, -mech.turn)
        IN /\ is_action_legal_reversi(cls.M, cls.N, mech.board, mech.turn, pass) => stuck
           /\ stuck =>
                 \A a \in 0..pass :
                     is_action_legal_reversi(cls.M, cls.N, mech.board, mech.turn, a)
                         <=> a = pass

\* the outcome of Reversi for a board: ongoing while a side has a move, then the
\* side with more discs
ReversiExpectedOutcome(m, n, board) ==
    LET ones == Cardinality({x \in Cells(m, n) : board[x] = 1})
        minus_ones == Cardinality({x \in Cells(m, n) : board[x] = -1})
    IN IF HasMove(m, n, board, 1) \/ HasMove(m, n, board, -1) THEN 2
       ELSE IF ones > minus_ones THEN 1
       ELSE IF ones < minus_ones THEN -1
       ELSE 0

\* C18: compute_outcome_reversi returns 2 exactly when one of the two sides has a
\* legal move that is not the pass; when neither has it returns +1 when the discs
\* +1 are more than the discs -1, -1 when they are fewer and 0 when they are as
\* many, whatever the arguments turn and last_action
C18_ReversiOutcome ==
    cls.name = "Reversi" =>
        LET expected == ReversiExpectedOutcome(cls.M, cls.N, mech.board)
        IN /\ \A t \in {-1, 1} : \A la \in {None, 0, cls.M * cls.N} :
                 compute_outcome_reversi(cls.M, cls.N, mech.board, t, la) = expected
           /\ mech.last_action # None => mech.outcome = expected

\* a move has ended the game with more discs -1 than discs +1, though it was the
\* side +1 that made it
C18_Witness ==
    /\ cls.name = "Reversi"
    /\ mech.last_action # None
    /\ mech.last_action # cls.M * cls.N
    /\ mech.turn = -1
    /\ mech.outcome = -1
    /\ \E x \in Cells(cls.M, cls.N) : mech.board[x] = 0

\* C19: for Connect 4, Gomoku and Reversi, on every board and for either side,
\* is_action_legal marks an action index legal (the pass of Reversi among them)
\* exactly when the action is among the entries that legal_actions_playout writes
\* on a fresh list, and no entry is written twice
C19_LegalIffListed ==
    pc = "mech" =>
        LET lawc == legal_actions_playout(cls, [mech EXCEPT !.legal_actions = <<>>])
        IN /\ \A a \in 0..(mech_max_actions(cls) - 1) :
                 is_action_legal(cls, mech, a) <=> a \in SeqRange(lawc)
           /\ Cardinality(SeqRange(lawc)) = Len(lawc)

\* after a move of a playout of Reversi, the side to move can only pass: the pass
\* is the one entry of the list and the one legal action
C19_Witness ==
    /\ cls.name = "Reversi"
    /\ mech.moves = 1
    /\ mech.legal_actions # <<>>
    /\ legal_actions_playout(cls, [mech EXCEPT !.legal_actions = <<>>])
          = <<cls.M * cls.N>>
    /\ is_action_legal(cls, mech, cls.M * cls.N)
    /\ HasMove(cls.M, cls.N, mech.board, -mech.turn)

\* C21: a call of compute_outcome on a state made by take_action executes
\* compute_outcome_job only when no earlier call has, every later call returns
\* the value of the first one and changes nothing, and the memorized outcome of
\* an object never changes; on a state whose last_action_index is None the call
\* returns None, executes nothing and memorizes nothing
C21_OutcomeCached ==
    /\ [](\A p \in DOMAIN tree :
            LET r1 == compute_outcome(cls, tree, p)
                r2 == compute_outcome(cls, r1.tree, p)
            IN /\ r2.outcome = r1.outcome
               /\ r2.tree = r1.tree
               /\ ~r2.job_run
               /\ r1.job_run <=> (~tree[p].outcome_computed
                                   /\ tree[p].last_action_index # None)
               /\ tree[p].outcome_computed =>
                     r1.outcome = tree[p].outcome /\ r1.tree = tree
               /\ tree[p].last_action_index = None =>
                     /\ r1.outcome = None
                     /\ r1.tree = tree
                     /\ ~tree[p].outcome_computed
               /\ tree[p].last_action_index # None => r1.tree[p].outcome_computed)
    /\ [][\A p \in (DOMAIN tree) \cap (DOMAIN tree') :
            tree[p].outcome_computed =>
                /\ tree'[p].outcome_computed
                /\ tree'[p].outcome = tree[p].outcome]_vars

\* _backup calls compute_outcome on the state at which the playout has stopped,
\* whose outcome the playout has computed: the call finds it memorized; the
\* initial state of the game is in the tree with nothing memorized
C21_Witness ==
    /\ pc = "backup"
    /\ state # playout_root
    /\ tree[state].outcome_computed
    /\ tree[state].outcome \in {-1, 0, 1}
    /\ ~compute_outcome(cls, tree, state).job_run
    /\ tree[<<>>].last_action_index = None
    /\ ~tree[<<>>].outcome_computed

\* the actions of the state at g that are legal: take_action gives a state
LegalActions(c, t, g) ==
    {a \in 0..(get_max_actions(c) - 1) : take_action(c, t, g, a).child # NoState}

\* C22: the runner applies no illegal move of a human: a typed move is applied
\* only when it names a legal action of the current state, and then that action
\* is the one applied; when take_action returns None the game stays as it is and
\* the same player is asked again; when reading the move raises, the game stops
\* with no move applied
C22_IllegalNeverApplied ==
    [][(pc = "idle" /\ ~ai_to_move(runner, game) /\ naming' # naming) =>
          LET move_name == naming'.name
              named == {a \in LegalActions(cls, tree, game) :
                           action_index_to_name(cls, a) = move_name}
          IN /\ game' # game =>
                   \E a \in named : game' = Append(game, a)
             /\ (naming'.index # None
                 /\ ~take_action_job_raises(cls, naming'.index)
                 /\ take_action(cls, tree, game, naming'.index).child = NoState) =>
                   /\ game' = game
                   /\ tree' = tree
                   /\ pc' = "idle"
             /\ (naming'.index = None \/ take_action_job_raises(cls, naming'.index)) =>
                   /\ game' = game
                   /\ tree' = tree
                   /\ pc' = "escaped"
      ]_vars

\* the move an AI player has made is a child of the state the search ran on,
\* made by take_action of a legal action
C22_AIMovesLegal ==
    [][(pc = "done" /\ game' # game) =>
          /\ best_action \in LegalActions(cls, tree, game)
          /\ Contains(tree[game].children, best_action)
          /\ game' = Append(game, best_action)]_vars

DescentNodes(r, st) == {SubSeq(st, 1, l) : l \in Len(r)..(Len(st) - 1)}

\* C24: _select returns a node without children; from a node with a child of
\* n = 0 it goes down to the first such child in the order of the children, the
\* one of the lowest action index, and never to a visited child; from a node whose
\* children are all visited it goes down to the first child, in that order, of
\* the largest UCB
C24_SelectFrontier ==
    [][(pc = "loop" /\ pc' = "expand") =>
          /\ IsPrefix(root, state')
          /\ tree[state'].children = <<>>
          /\ \A q \in DescentNodes(root, state') :
                LET keys == tree[q].children
                    pos == CHOOSE k \in 1..Len(keys) : keys[k] = state'[Len(q) + 1]
                    n_of(k) == tree[Append(q, keys[k])].n
                    ucb(k) == ucb_of(tree, Append(q, keys[k]))
                    unvisited == {k \in 1..Len(keys) : n_of(k) = 0}
                IN /\ Contains(keys, state'[Len(q) + 1])
                   /\ \A k \in 1..(Len(keys) - 1) : keys[k] < keys[k + 1]
                   /\ IF unvisited # {}
                      THEN /\ pos \in unvisited
                           /\ \A k \in unvisited : pos <= k /\ keys[pos] <= keys[k]
                      ELSE /\ \A k \in 1..Len(keys) : ucb(k) <= ucb(pos)
                           /\ \A k \in 1..(pos - 1) : ucb(k) < ucb(pos)
      ]_vars

\* at the root all the children were visited and two of them had the same UCB,
\* the largest: the selection has taken the first of the two, a node without
\* children
C24_Witness ==
    /\ pc = "expand"
    /\ Len(state) = Len(root) + 1
    /\ tree[state].children = <<>>
    /\ LET keys == tree[root].children
           ucb(k) == ucb_of(tree, Append(root, keys[k]))
       IN /\ \A k \in 1..Len(keys) : tree[Append(root, keys[k])].n >= 1
          /\ \E k, l \in 1..Len(keys) :
                /\ k < l
                /\ keys[k] = Last(state)
                /\ ucb(k) = ucb(l)

\* C25: one call of _backup with the outcome o of the playout adds 1 to n on the
\* nodes from the playout root up to the root of the search and on no other, not
\* on the states above the root either; it adds 1 to n_wins on those of them whose
\* turn is -o and on no other node; it leaves the playout root without children
\* and nothing of what the playout made; it changes nothing else
C25_BackupPath ==
    [][(pc = "backup" /\ pc' = "loop") =>
          LET o == tree[state].outcome
              path == {q \in DOMAIN tree : IsPrefix(root, q) /\ IsPrefix(q, playout_root)}
          IN /\ o \in {-1, 0, 1}
             /\ root \in path /\ playout_root \in path
             /\ DOMAIN tree' = {q \in DOMAIN tree : ~IsProperPrefix(playout_root, q)}
             /\ tree'[playout_root].children = <<>>
             /\ \A q \in DOMAIN tree' :
                   /\ tree'[q].n = tree[q].n + (IF q \in path THEN 1 ELSE 0)
                   /\ tree'[q].n_wins =
                         tree[q].n_wins
                         + (IF q \in path /\ tree[q].turn = -o THEN 1 ELSE 0)
                   /\ o = 0 => tree'[q].n_wins = tree[q].n_wins
                   /\ [tree'[q] EXCEPT !.n = 0, !.n_wins = 0, !.children = <<>>]
                        = [tree[q] EXCEPT !.n = 0, !.n_wins = 0, !.children = <<>>]
                   /\ q # playout_root => tree'[q].children = tree[q].children
      ]_vars

\* a second search, on a state below the one of the first: its first backup is
\* over, of a playout that was won, and the state above the root still has the n
\* of the first search
C25_Witness ==
    /\ pc = "loop"
    /\ Len(hist) = 2
    /\ hist[1].steps >= 1
    /\ steps = 1
    /\ IsProperPrefix(hist[1].root, root)
    /\ tree[hist[1].root].n = hist[1].steps
    /\ tree[root].n_wins >= 1
    /\ \E k \in 1..Len(tree[root].children) :
          LET ch == tree[Append(root, tree[root].children[k])]
          IN ch.n = 1 /\ ch.n_wins = 0 /\ ch.children = <<>>

\* C26: in a playout of C4, Gomoku or Reversi the action drawn in a state whose
\* outcome is None is legal in it, take_action gives its child and the playout
\* goes on from the child; the playout ends only at a state whose outcome is -1,
\* 0 or 1
C26_PlayoutLegal ==
    [][pc = "playout" =>
          /\ pc' \in {"playout", "backup"}
          /\ pc' = "playout" =>
                /\ compute_outcome(cls, tree, state).outcome = None
                /\ Front(state') = state
                /\ take_action_job(cls, State_init(cls, tree, state), Last(state')).legal
                /\ state' \in DOMAIN tree'
          /\ pc' = "backup" =>
                state' = state /\ tree'[state].outcome \in {-1, 0, 1}
      ]_vars

\* the indexes of the empty crossings of a board
EmptyCells(m, n, board) == {k \in 0..(m * n - 1) : board[k \div n, k % n] = 0}

\* C27: in a playout of Gomoku that starts with no list, after the first call of
\* legal_actions_playout_gomoku and after every take_action_playout_gomoku of an
\* action of the list at its place, the entries of the list are the indexes of
\* the empty crossings of the board, each once, and their count is the number of
\* the empty crossings; legal_actions_playout_gomoku scans the board only when
\* the count is 0 and otherwise leaves the list as it is
C27_ListCompaction ==
    LET empty == EmptyCells(cls.M, cls.N, mech.board)
        stored == mech.legal_actions
        lawc == legal_actions_playout(cls, mech)
    IN /\ SeqRange(lawc) = empty
       /\ Len(lawc) = Cardinality(empty)
       /\ mech.moves >= 1 =>
             /\ SeqRange(stored) = empty
             /\ Len(stored) = Cardinality(empty)
       /\ Len(stored) # 0 => lawc = stored
       /\ Len(stored) = 0 => \A k \in 1..(Len(lawc) - 1) : lawc[k] < lawc[k + 1]

\* three actions have been taken, none of them the last of the list, and the
\* list that is left is not in the order of a scan of the board
C27_Witness ==
    /\ mech.moves = 3
    /\ Len(mech.legal_actions) >= 2
    /\ \E k \in 1..(Len(mech.legal_actions) - 1) :
          mech.legal_actions[k] > mech.legal_actions[k + 1]
    /\ legal_actions_playout(cls, mech) = mech.legal_actions

\* the outcome of the state at p is -1, 0 or 1
IsTerminal(c, t, p) == compute_outcome(c, t, p).outcome # None

\* the actions that take_action_job accepts in the state at p
JobLegal(c, t, p) ==
    {a \in 0..(get_max_actions(c) - 1) : take_action_job(c, State_init(c, t, p), a).legal}

\* C28: a run of at least one step on a root that is not terminal and has a
\* legal action returns an action, a key of root.children that is legal in the
\* root; at the reduction the root has children only if a step of the run has
\* been made or, not vanilla, an earlier search has left them; a vanilla run of
\* no step has no child at the reduction and returns no action
C28_RunReturnsChild ==
    /\ [](pc = "done" =>
            /\ Contains(tree[root].children, best_action)
            /\ best_action \in JobLegal(cls, tree, root))
    /\ []((pc = "reduce" /\ tree[root].children # <<>>) =>
            \/ steps >= 1
            \/ /\ ~mcts.vanilla
               /\ \E i \in 1..(Len(hist) - 1) :
                     IsPrefix(hist[i].root, root) /\ hist[i].steps >= 1)
    /\ [][pc = "reduce" =>
            /\ (steps >= 1 /\ ~IsTerminal(cls, tree, root)
                    /\ JobLegal(cls, tree, root) # {}) =>
                  /\ pc' = "done"
                  /\ tree[root].children # <<>>
            /\ (mcts.vanilla /\ steps = 0) =>
                  /\ tree[root].children = <<>>
                  /\ best_action' = None
                  /\ pc' = "raised"]_vars

\* a vanilla run of one step or more has returned an action, and a second run
\* on the same state, of no step, has found no child and returned none
C28_Witness ==
    /\ pc = "raised"
    /\ mcts.vanilla
    /\ Len(hist) = 2
    /\ hist[1].steps >= 1
    /\ hist[1].best_action # None
    /\ hist[2].root = hist[1].root
    /\ forced = 0
    /\ steps = 0
    /\ best_action = None
    /\ tree[root].children = <<>>

\* the nodes of the tree that the search holds below its root
BelowRoot == IF root = NoState THEN {} ELSE {p \in DOMAIN tree : IsProperPrefix(root, p)}

\* C29: a node holds win_flag exactly when its outcome has been computed and is
\* the opposite of its turn, the win of the side that moved into it; a node once
\* flagged stays flagged, through the vanilla reset of the root too; every node
\* below the root with n >= 1 has its outcome computed, and a visited child of
\* the root holds win_flag exactly when its move has won the game
C29_WinFlagLatch ==
    /\ [](\A p \in DOMAIN tree :
            tree[p].win_flag <=>
                (tree[p].outcome_computed /\ tree[p].outcome = -tree[p].turn))
    /\ [](\A p \in BelowRoot :
            tree[p].n >= 1 =>
                /\ tree[p].outcome_computed
                /\ tree[p].outcome = compute_outcome_job(cls, tree[p])
                /\ (Front(p) = root =>
                      (tree[p].win_flag <=>
                          compute_outcome_job(cls, tree[p]) = tree[root].turn)))
    /\ [][\A p \in (DOMAIN tree) \cap (DOMAIN tree') :
            tree[p].win_flag => tree'[p].win_flag]_vars

\* between two steps of a vanilla search, a visited child of the root holds the
\* flag, its move having won, and another visited child does not
C29_Witness ==
    /\ pc = "loop"
    /\ mcts.vanilla
    /\ \E p \in BelowRoot :
          /\ Front(p) = root
          /\ tree[p].n >= 1
          /\ tree[p].win_flag
          /\ tree[p].outcome = tree[root].turn
    /\ \E q \in BelowRoot :
          /\ Front(q) = root
          /\ tree[q].n >= 1
          /\ ~tree[q].win_flag

\* the discs of sign token on the board
DiscsOf(m, n, board, token) == Cardinality({x \in Cells(m, n) : board[x] = token})

\* the fills of the columns count the discs of the columns, the discs of a column
\* lie in its bottom rows, and black has as many discs as white or one more
C4Stacked(m, n, board, fills) ==
    /\ \A j \in 0..(n - 1) :
          /\ fills[j] \in 0..m
          /\ fills[j] = Cardinality({i \in 0..(m - 1) : board[i, j] # 0})
          /\ \A i \in 0..(m - 1) : board[i, j] # 0 <=> i >= m - fills[j]
    /\ DiscsOf(m, n, board, 1) - DiscsOf(m, n, board, -1) \in {0, 1}

\* C30: in every state of Connect 4 reached from the empty board by legal moves,
\* of the class or of the functions of the mechanics, every column_fills[j] is in
\* 0..M and is the number of the discs of column j, which lie in the bottom
\* column_fills[j] rows of the column, and the discs +1 are as many as the discs
\* -1 or one more
C30_C4Board ==
    cls.name = "C4" =>
        /\ mech # NoMech =>
              C4Stacked(cls.M, cls.N, mech.board, mech.extra_info)
        /\ \A p \in DOMAIN tree :
              C4Stacked(cls.M, cls.N, tree[p].board, tree[p].column_fills)

\* a playout move has just been taken on a board with a full column, a column
\* partly filled and an empty column
C30_Witness ==
    /\ cls.name = "C4"
    /\ mech # NoMech
    /\ mech.moves >= 4
    /\ mech.legal_actions # <<>>
    /\ \E j1, j2, j3 \in 0..(cls.N - 1) :
          /\ mech.extra_info[j1] = cls.M
          /\ mech.extra_info[j2] \in 1..(cls.M - 1)
          /\ mech.extra_info[j3] = 0
    /\ C4Stacked(cls.M, cls.N, mech.board, mech.extra_info)

====
